---------------------------- MODULE Spec2Model ----------------------------
(***************************************************************************)
(* Organisation-chart library (victorono/orgchart).                        *)
(*                                                                         *)
(* Two charts are modelled:                                                *)
(*   - SimpleOrgChart (src/SimpleOrgChart.js): the SVG chart with its own  *)
(*     tree builder, sibling sort, layout engine (calculateDimensions,     *)
(*     assignXPositions, adjustSubtreePositions) and viewport.             *)
(*   - HTMLOrgChart (src/HTMLOrgChart.js, the class starting at line 2243):*)
(*     the viewport (scale, translateX, translateY), wheel and button      *)
(*     zoom, drag and the deferred callbacks.                              *)
(*                                                                         *)
(* Numbers.  JavaScript numbers are modelled exactly:                      *)
(*   - lengths of the layout are integers counted in sub-pixels            *)
(*     (1 px = SubPx sub-pixels); the layout only adds, subtracts and      *)
(*     halves, and Half is defined only where the halving is exact;        *)
(*   - viewport numbers are extended rationals <<n, d>> in lowest terms,   *)
(*     d > 0, with <<1,0>> = +Infinity, <<-1,0>> = -Infinity and           *)
(*     <<0,0>> = NaN, following IEEE-754 for the special values.           *)
(***************************************************************************)
EXTENDS Integers, Sequences, FiniteSets, TLC

(***************************************************************************)
(* Bounds of the model.                                                    *)
(***************************************************************************)
\* largest number of records of an input data set
MaxNodes == 4
MaxSortNodes == 3
MaxViewNodes == 1
MaxGestures == 3
MaxRedrawTimers == 2
MaxNewNodes == 2
MaxRawRecords == 3
MaxRawId == 2
MaxCenterTimers == 2
MaxChain == 3
MaxEvents == 3

(***************************************************************************)
(* Program constants (defaultOptions of SimpleOrgChart).                   *)
(***************************************************************************)
nodeWidth == 180
nodeHeight == 140
horizontalSpacing == 60
verticalSpacing == 80

\* 1 px = SubPx sub-pixels: enough for one exact halving per tree level
SubPx == 2 ^ MaxNodes
Px(v) == v * SubPx

(***************************************************************************)
(* Sequence helpers.                                                       *)
(***************************************************************************)
Range(s) == {s[i] : i \in DOMAIN s}

RECURSIVE SeqMin(_)
SeqMin(s) ==
    IF Len(s) = 1 THEN s[1]
    ELSE LET m == SeqMin(Tail(s)) IN IF s[1] < m THEN s[1] ELSE m

RECURSIVE SeqMax(_)
SeqMax(s) ==
    IF Len(s) = 1 THEN s[1]
    ELSE LET m == SeqMax(Tail(s)) IN IF s[1] > m THEN s[1] ELSE m

Reverse(s) == [i \in 1..Len(s) |-> s[Len(s) + 1 - i]]

\* v / 2 for the values the layout halves; undefined if v is odd
Half(v) == CHOOSE h \in {v \div 2} : 2 * h = v

(***************************************************************************)
(* Extended rational arithmetic (JavaScript numbers of the viewport).      *)
(***************************************************************************)
AbsInt(n) == IF n < 0 THEN -n ELSE n
SignInt(n) == IF n < 0 THEN -1 ELSE IF n > 0 THEN 1 ELSE 0

RECURSIVE GCD(_, _)
GCD(a, b) == IF b = 0 THEN a ELSE GCD(b, a % b)

NaN == <<0, 0>>
PosInf == <<1, 0>>
NegInf == <<-1, 0>>

\* the number n/d in lowest terms; n/0 is an infinity or NaN
Rat(n, d) ==
    IF d = 0 THEN <<SignInt(n), 0>>
    ELSE LET g == GCD(AbsInt(n), AbsInt(d))
             s == IF d < 0 THEN -1 ELSE 1
         IN  <<s * (n \div g), s * (d \div g)>>

Num(n) == <<n, 1>>
IsNaN(a) == a = NaN
IsFiniteNum(a) == a[2] # 0

RNeg(a) == <<-a[1], a[2]>>

RAdd(a, b) ==
    IF IsNaN(a) \/ IsNaN(b) THEN NaN
    ELSE IF ~IsFiniteNum(a) /\ ~IsFiniteNum(b) THEN (IF a = b THEN a ELSE NaN)
    ELSE IF ~IsFiniteNum(a) THEN a
    ELSE IF ~IsFiniteNum(b) THEN b
    ELSE LET g == GCD(a[2], b[2])
         IN  Rat(a[1] * (b[2] \div g) + b[1] * (a[2] \div g), a[2] * (b[2] \div g))

RSub(a, b) == RAdd(a, RNeg(b))

RMul(a, b) ==
    IF IsNaN(a) \/ IsNaN(b) THEN NaN
    ELSE IF ~IsFiniteNum(a) \/ ~IsFiniteNum(b)
         THEN <<SignInt(a[1]) * SignInt(b[1]), 0>>
    ELSE LET g1 == GCD(AbsInt(a[1]), b[2])
             g2 == GCD(AbsInt(b[1]), a[2])
         IN  IF a[1] = 0 \/ b[1] = 0 THEN <<0, 1>>
             ELSE <<(a[1] \div g1) * (b[1] \div g2), (a[2] \div g2) * (b[2] \div g1)>>

RDiv(a, b) ==
    IF IsNaN(a) \/ IsNaN(b) THEN NaN
    ELSE IF ~IsFiniteNum(a) /\ ~IsFiniteNum(b) THEN NaN
    ELSE IF ~IsFiniteNum(b) THEN <<0, 1>>
    ELSE IF ~IsFiniteNum(a)
         THEN <<a[1] * (IF b[1] < 0 THEN -1 ELSE 1), 0>>
    ELSE IF b[1] = 0 THEN <<SignInt(a[1]), 0>>
    ELSE RMul(a, IF b[1] < 0 THEN <<-b[2], -b[1]>> ELSE <<b[2], b[1]>>)

\* a < b in JavaScript: false as soon as one side is NaN
RLess(a, b) ==
    IF IsNaN(a) \/ IsNaN(b) THEN FALSE
    ELSE IF ~IsFiniteNum(a) THEN a = NegInf /\ b # NegInf
    ELSE IF ~IsFiniteNum(b) THEN b = PosInf
    ELSE a[1] * b[2] < b[1] * a[2]

RLeq(a, b) == ~IsNaN(a) /\ ~IsNaN(b) /\ ~RLess(b, a)

\* Math.min, Math.max, Math.abs
MathMin(a, b) == IF IsNaN(a) \/ IsNaN(b) THEN NaN ELSE IF RLess(b, a) THEN b ELSE a
MathMax(a, b) == IF IsNaN(a) \/ IsNaN(b) THEN NaN ELSE IF RLess(a, b) THEN b ELSE a
MathAbs(a) == <<AbsInt(a[1]), a[2]>>

\* a layout length (sub-pixels) as a number of pixels
PxNum(v) == Rat(v, SubPx)


(***************************************************************************)
(* Input data.  A record is [id, pid, name]; pid is <<>> for a record      *)
(* without parent (null / undefined) and <<p>> for parent id p.  Ids are   *)
(* numbers when idKind = "number"; when idKind = "string" the id k stands  *)
(* for the non-numeric string "n" + k (so that Number(id) is NaN).         *)
(***************************************************************************)
Names == {"ann", "Bob"}
IdKinds == {"number", "string"}

\* String.prototype.toLowerCase on the names of the model
ToLowerCase(s) == IF s = "Bob" THEN "bob" ELSE s

\* position of a string in the order of < on strings (UTF-16 code units):
\* "" < "Bob" < "ann" < "bob"
StrRank(s) == CASE s = "" -> 0 [] s = "Bob" -> 1 [] s = "ann" -> 2 [] s = "bob" -> 3

\* the data sets of n records: ids 1..n in input order, every parent listed
\* before its children, names drawn from the set names
RECURSIVE DataSetsOfSize(_, _)
DataSetsOfSize(n, names) ==
    IF n = 0 THEN {<<>>}
    ELSE {Append(d, r) : d \in DataSetsOfSize(n - 1, names),
                         r \in [id : {n}, pid : {<<>>} \cup {<<p>> : p \in 1..(n - 1)}, name : names]}

\* the forests of up to MaxNodes employees, all of one name: the order of
\* siblings is then decided by the ids
DataSets == UNION {DataSetsOfSize(n, {"ann"}) : n \in 0..MaxNodes}

\* the forests of up to MaxViewNodes employees the zoom is exercised on
ViewDataSets == UNION {DataSetsOfSize(n, {"ann"}) : n \in 0..MaxViewNodes}

\* the forests of up to MaxSortNodes employees with every choice of names
SortDataSets == UNION {DataSetsOfSize(n, Names) : n \in 0..MaxSortNodes}

VARIABLES
    data,              \* this.data: the input records
    idKind,            \* typeof id of the records of data
    options,           \* this.options: sortBy, sortDirection, initiallyExpanded, initialVisibleLevels
    hierarchicalData,  \* this.hierarchicalData: [roots, children, level]
    expandedNodes,     \* this.expandedNodes: Map id -> boolean
    nodePositions,     \* this.nodePositions: id -> [x, level]
    nodesAtLevel,      \* this.nodesAtLevel: per level, the nodes placed at it
    svgWidth, svgHeight,
    containerSize,     \* container.getBoundingClientRect(): <<width, height>> in px
    currentScale, translationX, translationY,
    centerTimer,       \* number of pending centerOrgChart timeouts
    \* HTMLOrgChart (the class of lines 2243-3868 of HTMLOrgChart.js)
    scale,             \* this.scale
    translateX,        \* this.translateX
    translateY,        \* this.translateY
    transform,         \* chartContainer.style.transform as [tx, ty, scale]
    boundaries,        \* this.boundaries, <<>> while undefined
    singleNode,        \* whether exactly one .node element is visible
    initialCenter,     \* pending timeouts of initialize: 2, 1 or 0
    wheelZoomTimeout,  \* whether the debounced redraw of the wheel is pending
    redrawTimers,      \* number of pending redrawAllConnectors timeouts
    gestures,          \* number of zoom gestures so far
    \* the page
    thrown,            \* the exception the last constructor or update call threw, "" if none
    mounted,           \* the charts rendered in their containers, listeners attached
    \* dragging: the variables the listeners of configureDrag (SimpleOrgChart)
    \* and of setupZoomControls (HTMLOrgChart) close over
    isDragging,
    dragStartX, dragStartY,  \* configureDrag's startX, startY: pointer minus translation at the start
    lastX, lastY,      \* setupZoomControls: the last pointer position
    pointer,           \* the pointer that is down: "none", "mouse" or "touch"
    pointerAt,         \* <<clientX, clientY>> of the last pointer event
    events             \* number of pointer-down, wheel and slider events so far

(***************************************************************************)
(* sortNodes (src/SimpleOrgChart.js 1668-1709).                            *)
(***************************************************************************)
\* the value of a[sortField], after the undefined/null and toLowerCase steps,
\* as its rank in the order of <
SortKey(rec, sortBy, kind) ==
    IF sortBy = "name" THEN StrRank(ToLowerCase(rec.name))
    ELSE IF sortBy = "id" THEN rec.id      \* numbers, or "n1" < "n2" < ...
    ELSE StrRank("")                        \* a field no record has

\* a.id - b.id: NaN for non-numeric strings; the sort reads NaN as 0
IdDifference(a, b, kind) == IF kind = "number" THEN a - b ELSE 0

\* the comparator of nodes.sort in sortNodes, for the records ra and rb
Compare(ra, rb, opts, kind) ==
    LET isAscending == opts.sortDirection # "desc"
        valA == SortKey(ra, opts.sortBy, kind)
        valB == SortKey(rb, opts.sortBy, kind)
    IN  IF valA < valB THEN (IF isAscending THEN -1 ELSE 1)
        ELSE IF valA > valB THEN (IF isAscending THEN 1 ELSE -1)
        ELSE IF isAscending THEN IdDifference(ra.id, rb.id, kind)
        ELSE IdDifference(rb.id, ra.id, kind)

\* the record of node id n
RecordOf(d, n) == d[CHOOSE i \in DOMAIN d : d[i].id = n /\ \A j \in 1..(i - 1) : d[j].id # n]

\* Array.prototype.sort is stable: x goes before the first element it is
\* smaller than
RECURSIVE InsertSorted(_, _, _, _, _)
InsertSorted(x, s, d, opts, kind) ==
    IF s = <<>> THEN <<x>>
    ELSE IF Compare(RecordOf(d, x), RecordOf(d, Head(s)), opts, kind) < 0
         THEN <<x>> \o s
         ELSE <<Head(s)>> \o InsertSorted(x, Tail(s), d, opts, kind)

RECURSIVE StableSort(_, _, _, _)
StableSort(s, d, opts, kind) ==
    IF s = <<>> THEN <<>>
    ELSE InsertSorted(s[Len(s)], StableSort(SubSeq(s, 1, Len(s) - 1), d, opts, kind), d, opts, kind)

\* sortNodes(nodes): sorts the list in place, then the children of each of its
\* nodes, recursively; returns the sorted list and the children map
RECURSIVE sortNodes(_, _, _, _, _)
RECURSIVE SortChildrenOf(_, _, _, _, _)
sortNodes(nodes, kids, d, opts, kind) ==
    IF nodes = <<>> \/ opts.sortBy = "" THEN [nodes |-> nodes, kids |-> kids]
    ELSE LET sorted == StableSort(nodes, d, opts, kind)
         IN  [nodes |-> sorted, kids |-> SortChildrenOf(sorted, kids, d, opts, kind)]

SortChildrenOf(list, kids, d, opts, kind) ==
    IF list = <<>> THEN kids
    ELSE LET n == Head(list)
             r == sortNodes(kids[n], kids, d, opts, kind)
             k == IF kids[n] # <<>> THEN [r.kids EXCEPT ![n] = r.nodes] ELSE kids
         IN  SortChildrenOf(Tail(list), k, d, opts, kind)

\* sortAllLevels of processData and changeSortOrder: sortNodes on the list,
\* then sortAllLevels on the children of every node
RECURSIVE sortAllLevels(_, _, _, _, _)
RECURSIVE SortAllLevelsOf(_, _, _, _, _)
sortAllLevels(nodes, kids, d, opts, kind) ==
    LET r == sortNodes(nodes, kids, d, opts, kind)
    IN  [nodes |-> r.nodes, kids |-> SortAllLevelsOf(r.nodes, r.kids, d, opts, kind)]

SortAllLevelsOf(list, kids, d, opts, kind) ==
    IF list = <<>> THEN kids
    ELSE LET n == Head(list)
             r == sortAllLevels(kids[n], kids, d, opts, kind)
             k == IF kids[n] # <<>> THEN [r.kids EXCEPT ![n] = r.nodes] ELSE kids
         IN  SortAllLevelsOf(Tail(list), k, d, opts, kind)

(***************************************************************************)
(* processData (src/SimpleOrgChart.js 95-163).                             *)
(***************************************************************************)
\* lines 98-107: the first record of every id
RECURSIVE UniqueData(_, _)
UniqueData(d, seenIds) ==
    IF d = <<>> THEN <<>>
    ELSE IF Head(d).id \in seenIds THEN UniqueData(Tail(d), seenIds)
    ELSE <<Head(d)>> \o UniqueData(Tail(d), seenIds \cup {Head(d).id})

\* node.pid as a condition: null, undefined and the number 0 are falsy
Truthy(pid, kind) == pid # <<>> /\ ~(kind = "number" /\ pid[1] = 0)

\* lines 121-137: the second pass over uniqueData
RECURSIVE BuildHierarchy(_, _, _, _)
BuildHierarchy(u, i, h, kind) ==
    IF i > Len(u) THEN h
    ELSE LET node == u[i]
         IN  IF Truthy(node.pid, kind) /\ node.pid[1] \in DOMAIN h.children
             THEN BuildHierarchy(u, i + 1,
                    [roots |-> h.roots,
                     children |-> [h.children EXCEPT ![node.pid[1]] = Append(@, node.id)],
                     level |-> [h.level EXCEPT ![node.id] = h.level[node.pid[1]] + 1]], kind)
             ELSE BuildHierarchy(u, i + 1,
                    [roots |-> Append(h.roots, node.id),
                     children |-> h.children,
                     level |-> [h.level EXCEPT ![node.id] = 0]], kind)

\* removeDuplicates (lines 191-225): keeps the first occurrence of every id
\* met while walking the tree from the roots
RECURSIVE filterDuplicates(_, _, _)
filterDuplicates(nodes, seen, kids) ==
    IF nodes = <<>> THEN [unique |-> <<>>, seen |-> seen, kids |-> kids]
    ELSE LET node == Head(nodes)
         IN  IF node \in seen
             THEN filterDuplicates(Tail(nodes), seen, kids)
             ELSE LET sub == IF kids[node] # <<>>
                             THEN filterDuplicates(kids[node], seen \cup {node}, kids)
                             ELSE [unique |-> <<>>, seen |-> seen \cup {node}, kids |-> kids]
                      k == IF kids[node] # <<>> THEN [sub.kids EXCEPT ![node] = sub.unique]
                           ELSE kids
                      rest == filterDuplicates(Tail(nodes), sub.seen, k)
                  IN  [unique |-> <<node>> \o rest.unique, seen |-> rest.seen, kids |-> rest.kids]

processData(d, opts, kind) ==
    LET uniqueData == UniqueData(d, {})
        ids == {uniqueData[i].id : i \in DOMAIN uniqueData}
        h0 == [roots |-> <<>>, children |-> [n \in ids |-> <<>>], level |-> [n \in ids |-> 0]]
        h1 == BuildHierarchy(uniqueData, 1, h0, kind)
        f == filterDuplicates(h1.roots, {}, h1.children)
        s == sortAllLevels(f.unique, f.kids, d, opts, kind)
    IN  [roots |-> s.nodes, children |-> s.kids, level |-> h1.level]

\* configureInitialExpansion (lines 168-185)
RECURSIVE configureExpansion(_, _, _, _, _)
configureExpansion(nodes, level, h, opts, exp) ==
    IF nodes = <<>> THEN exp
    ELSE LET node == Head(nodes)
             expanded == opts.initiallyExpanded /\ level < opts.initialVisibleLevels
             e1 == [k \in DOMAIN exp \cup {node} |-> IF k = node THEN expanded ELSE exp[k]]
             e2 == IF h.children[node] # <<>>
                   THEN configureExpansion(h.children[node], level + 1, h, opts, e1)
                   ELSE e1
         IN  configureExpansion(Tail(nodes), level, h, opts, e2)

configureInitialExpansion(h, opts, exp) == configureExpansion(h.roots, 0, h, opts, exp)

\* Map.prototype.get as a condition: a missing key gives undefined, falsy
IsExpanded(exp, n) == n \in DOMAIN exp /\ exp[n]

(***************************************************************************)
(* Layout: calculateDimensions (230-388), assignXPositions (1359-1444),    *)
(* adjustSubtreePositions (1451-1461), adjustSVGSize (393-427).            *)
(* A layout state is [pos, nal]: this.nodePositions and this.nodesAtLevel. *)
(***************************************************************************)
EmptyLayout == [pos |-> <<>>, nal |-> <<>>]

\* this.nodePositions[id] = {x, level}
SetPos(pos, n, x, level) ==
    [k \in DOMAIN pos \cup {n} |-> IF k = n THEN [x |-> x, level |-> level] ELSE pos[k]]

\* this.nodePositions[id].x += adjustment
ShiftPos(pos, n, adjustment) == [pos EXCEPT ![n].x = @ + adjustment]

\* a faulty visible tree: the children of collapsed nodes are kept
AllChildren(h, exp, n) == h.children[n]

\* the children of nodeInfo in the visible tree of buildVisibleTree (294-339)
VisibleChildren(h, exp, n) ==
    IF h.children[n] # <<>> /\ IsExpanded(exp, n) THEN h.children[n] ELSE <<>>

\* nodeInfo.width and tree.totalWidth of buildVisibleTree
RECURSIVE NodeInfoWidth(_, _, _)
RECURSIVE TreeTotalWidth(_, _, _)
NodeInfoWidth(h, exp, n) ==
    IF VisibleChildren(h, exp, n) = <<>> THEN Px(nodeWidth)
    ELSE LET sub == TreeTotalWidth(h, exp, h.children[n]) - Px(horizontalSpacing)
             minWidth == IF Px(nodeWidth) > sub THEN Px(nodeWidth) ELSE sub
         IN  IF Len(h.children[n]) > 3 THEN minWidth + Half(Px(horizontalSpacing)) ELSE minWidth

\* the sum of width + horizontalSpacing over the nodes (the last spacing is
\* removed by the caller)
TreeTotalWidth(h, exp, nodes) ==
    IF nodes = <<>> THEN 0
    ELSE NodeInfoWidth(h, exp, Head(nodes)) + Px(horizontalSpacing)
         + TreeTotalWidth(h, exp, Tail(nodes))

\* calculateTotalWidth of assignXPositions (1366-1376)
calculateTotalWidth(nodes) ==
    IF Len(nodes) = 0 THEN 0
    ELSE Len(nodes) * (Px(nodeWidth) + Px(horizontalSpacing)) - Px(horizontalSpacing)

\* nodesAtLevel[currentLevel].push(node), the level array created if missing
PushAtLevel(nal, level, n) ==
    LET ext == IF Len(nal) < level + 1 THEN Append(nal, <<>>) ELSE nal
    IN  [ext EXCEPT ![level + 1] = Append(@, n)]

EnsureLevel(nal, level) == IF Len(nal) < level + 1 THEN Append(nal, <<>>) ELSE nal

\* this.nodePositions[id]?.x || 0
XOrZero(pos, n) == IF n \in DOMAIN pos THEN pos[n].x ELSE 0

RECURSIVE assignXPositions(_, _, _, _, _, _)
RECURSIVE FirstPass(_, _, _, _, _, _, _)
RECURSIVE SecondPass(_, _, _, _, _, _, _)

\* first pass (1378-1411) from index i on; returns the layout and startX
FirstPass(h, exp, treeNodes, i, startX, currentLevel, st) ==
    IF i > Len(treeNodes) THEN [st |-> st, startX |-> startX]
    ELSE LET n == treeNodes[i]
             pushed == [pos |-> st.pos, nal |-> PushAtLevel(st.nal, currentLevel, n)]
             kidsOf == VisibleChildren(h, exp, n)
             width == NodeInfoWidth(h, exp, n)
         IN  IF kidsOf # <<>>
             THEN LET childrenWidth == calculateTotalWidth(kidsOf)
                      childrenStartX ==
                          IF Px(nodeWidth) > childrenWidth
                          THEN startX + Half(Px(nodeWidth) - childrenWidth)
                          ELSE startX
                      placed == assignXPositions(h, exp, kidsOf, childrenStartX,
                                                 currentLevel + 1, pushed)
                  IN  FirstPass(h, exp, treeNodes, i + 1,
                                startX + width + Px(horizontalSpacing), currentLevel, placed)
             ELSE FirstPass(h, exp, treeNodes, i + 1,
                            startX + width + Px(horizontalSpacing), currentLevel,
                            [pos |-> SetPos(pushed.pos, n, startX + Half(width), currentLevel),
                             nal |-> pushed.nal])

\* second pass (1413-1443) from index i on (i counts from 1, the code from 0)
SecondPass(h, exp, treeNodes, i, startX, currentLevel, st) ==
    IF i > Len(treeNodes) THEN st
    ELSE LET n == treeNodes[i]
             kidsOf == VisibleChildren(h, exp, n)
             default == startX - Px(horizontalSpacing) - Half(Px(nodeWidth))
                        + (i - 1) * (Px(nodeWidth) + Px(horizontalSpacing))
             childrenXPositions == [k \in 1..Len(kidsOf) |-> XOrZero(st.pos, kidsOf[k])]
             x == IF kidsOf # <<>>
                  THEN Half(SeqMin(childrenXPositions) + SeqMax(childrenXPositions))
                  ELSE default
         IN  SecondPass(h, exp, treeNodes, i + 1, startX, currentLevel,
                        [pos |-> SetPos(st.pos, n, x, currentLevel), nal |-> st.nal])

\* the second pass starts from the startX the first pass ended with
SecondPassAfter(h, exp, treeNodes, currentLevel, p1) ==
    SecondPass(h, exp, treeNodes, 1, p1.startX, currentLevel, p1.st)

assignXPositions(h, exp, treeNodes, startX, currentLevel, st) ==
    SecondPassAfter(h, exp, treeNodes, currentLevel,
                    FirstPass(h, exp, treeNodes, 1, startX, currentLevel,
                              [pos |-> st.pos, nal |-> EnsureLevel(st.nal, currentLevel)]))

\* adjustSubtreePositions(parentNode, adjustment)
RECURSIVE adjustSubtreePositions(_, _, _, _, _)
RECURSIVE AdjustChildren(_, _, _, _, _)
adjustSubtreePositions(h, exp, parentNode, adjustment, pos) ==
    IF h.children[parentNode] = <<>> \/ ~IsExpanded(exp, parentNode) THEN pos
    ELSE AdjustChildren(h, exp, h.children[parentNode], adjustment, pos)

AdjustChildren(h, exp, kidsOf, adjustment, pos) ==
    IF kidsOf = <<>> THEN pos
    ELSE LET child == Head(kidsOf)
             p == IF child \in DOMAIN pos
                  THEN adjustSubtreePositions(h, exp, child, adjustment,
                                              ShiftPos(pos, child, adjustment))
                  ELSE pos
         IN  AdjustChildren(h, exp, Tail(kidsOf), adjustment, p)

\* nodes.sort((a, b) => x_a - x_b) of line 353: stable, by x
RECURSIVE InsertByX(_, _, _)
InsertByX(n, s, pos) ==
    IF s = <<>> THEN <<n>>
    ELSE IF pos[n].x - pos[Head(s)].x < 0 THEN <<n>> \o s
    ELSE <<Head(s)>> \o InsertByX(n, Tail(s), pos)

RECURSIVE SortByX(_, _)
SortByX(s, pos) ==
    IF s = <<>> THEN <<>>
    ELSE InsertByX(s[Len(s)], SortByX(SubSeq(s, 1, Len(s) - 1), pos), pos)

\* lines 366-371: nodes[j] and its subtree move right, for j = i .. length - 1
RECURSIVE ShiftFrom(_, _, _, _, _, _)
ShiftFrom(h, exp, nodes, j, adjustment, pos) ==
    IF j > Len(nodes) THEN pos
    ELSE ShiftFrom(h, exp, nodes, j + 1, adjustment,
                   adjustSubtreePositions(h, exp, nodes[j], adjustment,
                                          ShiftPos(pos, nodes[j], adjustment)))

\* a faulty scan: the minimum distance without the horizontal spacing
RECURSIVE CheckDistancesNodeWidth(_, _, _, _, _)
CheckDistancesNodeWidth(h, exp, nodes, i, pos) ==
    IF i > Len(nodes) THEN pos
    ELSE LET currentDistance == pos[nodes[i]].x - pos[nodes[i - 1]].x
             minimum == Px(nodeWidth)
         IN  IF currentDistance < minimum
             THEN CheckDistancesNodeWidth(h, exp, nodes, i + 1,
                                          ShiftFrom(h, exp, nodes, i, minimum - currentDistance, pos))
             ELSE CheckDistancesNodeWidth(h, exp, nodes, i + 1, pos)

\* lines 356-373: the scan of one level from index i on
RECURSIVE CheckDistances(_, _, _, _, _)
CheckDistances(h, exp, nodes, i, pos) ==
    IF i > Len(nodes) THEN pos
    ELSE LET currentDistance == pos[nodes[i]].x - pos[nodes[i - 1]].x
             minimum == Px(nodeWidth) + Px(horizontalSpacing)
         IN  IF currentDistance < minimum
             THEN CheckDistances(h, exp, nodes, i + 1,
                                 ShiftFrom(h, exp, nodes, i, minimum - currentDistance, pos))
             ELSE CheckDistances(h, exp, nodes, i + 1, pos)

\* lines 347-374: the same-level pass over the levels from index level on
RECURSIVE AdjustLevels(_, _, _, _)
RECURSIVE AdjustSortedLevel(_, _, _, _, _)
AdjustSortedLevel(h, exp, level, st, sorted) ==
    AdjustLevels(h, exp, level + 1,
                 [pos |-> CheckDistances(h, exp, sorted, 2, st.pos),
                  nal |-> [st.nal EXCEPT ![level] = sorted]])

AdjustLevels(h, exp, level, st) ==
    IF level > Len(st.nal) THEN st
    ELSE IF Len(st.nal[level]) <= 1 THEN AdjustLevels(h, exp, level + 1, st)
    ELSE AdjustSortedLevel(h, exp, level, st, SortByX(st.nal[level], st.pos))

SetMax(S) == CHOOSE m \in S : \A v \in S : v <= m
SetMin(S) == CHOOSE m \in S : \A v \in S : m <= v
MaxOf(a, b) == IF a > b THEN a ELSE b

\* adjustSVGSize: the final svgWidth and svgHeight
adjustSVGSize(pos) ==
    LET xs == {pos[n].x : n \in DOMAIN pos}
        minX == IF xs = {} THEN 0 ELSE SetMin(xs) - Half(Px(nodeWidth))
        maxX == IF xs = {} THEN Px(800) ELSE SetMax(xs) + Half(Px(nodeWidth))
        maxLevel == IF xs = {} THEN 0 ELSE SetMax({pos[n].level : n \in DOMAIN pos})
        horizontalMargin == Px(horizontalSpacing) * 2
        newWidth == maxX - minX + horizontalMargin
        newHeight == (maxLevel + 1) * (Px(nodeHeight) + Px(verticalSpacing)) + Px(100)
    IN  [svgWidth |-> MaxOf(newWidth, Px(800)), svgHeight |-> MaxOf(newHeight, Px(600))]

\* lines 376-387: the layout with the size adjustSVGSize gives it
SizedLayout(final) ==
    [pos |-> final.pos, nal |-> final.nal,
     svgWidth |-> adjustSVGSize(final.pos).svgWidth,
     svgHeight |-> adjustSVGSize(final.pos).svgHeight]

\* a faulty start: the structures of the previous layout are kept
KeepLayout(old) == old

\* the structures the layout starts from: lines 246-247 reset them
ResetLayout(old) == EmptyLayout

\* calculateDimensions: the layout of the visible tree of h under exp;
\* old is the layout left by the previous call
calculateDimensions(h, exp, old) ==
    SizedLayout(AdjustLevels(h, exp, 1,
                             assignXPositions(h, exp, h.roots, Px(horizontalSpacing), 0,
                                              ResetLayout(old))))

(***************************************************************************)
(* Viewport of SimpleOrgChart.  A view is [scale, tx, ty]: currentScale,   *)
(* translationX and translationY, numbers of pixels.  cs is the size of    *)
(* the container, lay the layout [pos, nal, svgWidth, svgHeight].          *)
(***************************************************************************)
Two == Num(2)

\* centerOnSVG (737-754)
centerOnSVG(lay, cs, view) ==
    LET ty == Num(50)
    IN  [scale |-> view.scale,
         tx |-> RDiv(RSub(Num(cs[1]), PxNum(lay.svgWidth)), Two),
         ty |-> IF RLess(ty, Num(0)) THEN Num(20) ELSE ty]

\* centerChart (703-730)
centerChart(h, lay, cs, view) ==
    LET centred ==
            IF Len(h.roots) = 1 /\ h.roots[1] \in DOMAIN lay.pos
            THEN [scale |-> view.scale,
                  tx |-> RSub(RDiv(Num(cs[1]), Two), PxNum(lay.pos[h.roots[1]].x)),
                  ty |-> Num(50)]
            ELSE centerOnSVG(lay, cs, view)
    IN  IF RLess(centred.ty, Num(0)) THEN [centred EXCEPT !.ty = Num(20)] ELSE centred

\* render (659-698): the transformation is initialised, then the chart centred
render(h, lay, cs) == centerChart(h, lay, cs, [scale |-> Num(1), tx |-> Num(0), ty |-> Num(0)])

\* the level's y of a node: level * (nodeHeight + verticalSpacing) + 50
LevelY(level) == level * (nodeHeight + verticalSpacing) + 50

\* autoAdjustZoom without its return on a chart without visible nodes: the
\* bounds stay Infinity and -Infinity, the zoom is clamped to 0.5 and the
\* centre is Infinity - Infinity
autoAdjustZoomUnguarded(lay, cs, view) == [scale |-> Rat(1, 2), tx |-> NaN, ty |-> NaN]

\* autoAdjustZoom (505-567)
autoAdjustZoom(lay, cs, view) ==
    LET pos == lay.pos
        xs == {pos[n].x : n \in DOMAIN pos}
        levels == {pos[n].level : n \in DOMAIN pos}
        margin == 50
        minX == RSub(PxNum(SetMin(xs) - Half(Px(nodeWidth))), Num(margin))
        maxX == RAdd(PxNum(SetMax(xs) + Half(Px(nodeWidth))), Num(margin))
        minY == Num(LevelY(SetMin(levels)) - nodeHeight \div 2 - margin)
        maxY == Num(LevelY(SetMax(levels)) - nodeHeight \div 2 + nodeHeight + margin)
        contentWidth == RSub(maxX, minX)
        contentHeight == RSub(maxY, minY)
        horizontalZoom == RDiv(Num(cs[1]), contentWidth)
        verticalZoom == RDiv(Num(cs[2]), contentHeight)
        newZoom == MathMax(Rat(1, 2), MathMin(MathMin(horizontalZoom, verticalZoom), Rat(3, 2)))
        centerX == RAdd(minX, RDiv(contentWidth, Two))
        centerY == RAdd(minY, RDiv(contentHeight, Two))
    IN  IF xs = {} THEN view
        ELSE IF RLess(Rat(1, 10), MathAbs(RSub(newZoom, view.scale)))
        THEN [scale |-> newZoom,
              tx |-> RSub(RDiv(Num(cs[1]), Two), RMul(centerX, newZoom)),
              ty |-> RSub(RDiv(Num(cs[2]), Two), RMul(centerY, newZoom))]
        ELSE view

\* ensureChartIsVisible (572-626)
ensureChartIsVisible(lay, cs, view) ==
    LET pos == lay.pos
        xs == {pos[n].x : n \in DOMAIN pos}
        levels == {pos[n].level : n \in DOMAIN pos}
        visibleWidth == RDiv(Num(cs[1]), view.scale)
        visibleLeft == RDiv(RNeg(view.tx), view.scale)
        visibleTop == RDiv(RNeg(view.ty), view.scale)
        minX == IF xs = {} THEN Num(0) ELSE PxNum(SetMin(xs) - Half(Px(nodeWidth)))
        maxX == IF xs = {} THEN PxNum(lay.svgWidth) ELSE PxNum(SetMax(xs) + Half(Px(nodeWidth)))
        minY == IF xs = {} THEN Num(0) ELSE Num(LevelY(SetMin(levels)) - nodeHeight \div 2)
        tx == IF RLess(minX, visibleLeft) THEN RMul(RNeg(minX), view.scale)
              ELSE IF RLess(RAdd(visibleLeft, visibleWidth), maxX) /\ RLess(minX, visibleLeft)
              THEN RMul(RNeg(RSub(RAdd(minX, RDiv(RSub(maxX, minX), Two)),
                                  RDiv(visibleWidth, Two))), view.scale)
              ELSE view.tx
        ty == IF RLess(minY, visibleTop) THEN RMul(RNeg(minY), view.scale) ELSE view.ty
    IN  [scale |-> view.scale, tx |-> tx, ty |-> ty]

\* setZoom (859-882)
setZoom(cs, view, newZoom) ==
    LET oldViewBoxWidth == RDiv(Num(cs[1]), view.scale)
        oldViewBoxHeight == RDiv(Num(cs[2]), view.scale)
        centerX == RAdd(RDiv(RNeg(view.tx), view.scale), RDiv(oldViewBoxWidth, Two))
        centerY == RAdd(RDiv(RNeg(view.ty), view.scale), RDiv(oldViewBoxHeight, Two))
        newViewBoxWidth == RDiv(Num(cs[1]), newZoom)
        newViewBoxHeight == RDiv(Num(cs[2]), newZoom)
    IN  [scale |-> newZoom,
         tx |-> RMul(RNeg(RSub(centerX, RDiv(newViewBoxWidth, Two))), newZoom),
         ty |-> RMul(RNeg(RSub(centerY, RDiv(newViewBoxHeight, Two))), newZoom)]

\* adjustZoom (850-853)
adjustZoom(cs, view, delta) ==
    setZoom(cs, view, MathMax(Rat(1, 2), MathMin(Num(3), RAdd(view.scale, delta))))

(***************************************************************************)
(* The operations of SimpleOrgChart.                                       *)
(***************************************************************************)
svgVars == <<data, idKind, options, hierarchicalData, expandedNodes, nodePositions,
             nodesAtLevel, svgWidth, svgHeight,
             currentScale, translationX, translationY, centerTimer>>

htmlVars == <<scale, translateX, translateY, transform, boundaries, singleNode,
              initialCenter, wheelZoomTimeout, redrawTimers, gestures>>

pageState == <<thrown, mounted>>

dragVars == <<isDragging, dragStartX, dragStartY, lastX, lastY, pointer, pointerAt, events>>

vars == <<svgVars, htmlVars, containerSize, pageState, dragVars>>

\* what no operation of SimpleOrgChart writes
dataVars == <<data, idKind, containerSize, htmlVars, pageState, dragVars>>

\* the layout held by the chart
CurrentLayout ==
    [pos |-> nodePositions, nal |-> nodesAtLevel, svgWidth |-> svgWidth, svgHeight |-> svgHeight]

CurrentView == [scale |-> currentScale, tx |-> translationX, ty |-> translationY]

SetView(view) ==
    /\ currentScale' = view.scale
    /\ translationX' = view.tx
    /\ translationY' = view.ty

\* the ids of the nodes of the tree hanging from the list nodes
RECURSIVE TreeIds(_, _)
TreeIds(h, nodes) ==
    IF nodes = <<>> THEN {}
    ELSE {Head(nodes)} \cup TreeIds(h, h.children[Head(nodes)]) \cup TreeIds(h, Tail(nodes))

\* findNodeById (1295-1311): <<node>> or <<>> (null)
findNodeById(h, id) == IF id \in TreeIds(h, h.roots) THEN <<id>> ELSE <<>>

\* a faulty flip: expanding a node resets the entries of its children
ToggleResettingChildren(h, exp, nodeId) ==
    LET currentState == IsExpanded(exp, nodeId)
    IN  [k \in DOMAIN exp \cup {nodeId} |->
            IF k = nodeId THEN ~currentState
            ELSE IF ~currentState /\ k \in Range(h.children[nodeId]) THEN FALSE
            ELSE exp[k]]

\* toggleNode (433-464): the expansion map and the tree after the flip
ToggleExpansion(h, exp, nodeId) ==
    LET currentState == IsExpanded(exp, nodeId)
        flipped == [k \in DOMAIN exp \cup {nodeId} |->
                       IF k = nodeId THEN ~currentState ELSE exp[k]]
        currentNode == findNodeById(h, nodeId)
        kidsOf == IF currentNode # <<>> THEN h.children[nodeId] ELSE <<>>
    IN  IF ~currentState /\ kidsOf # <<>>
        THEN [k \in DOMAIN flipped \cup Range(kidsOf) |->
                 IF k \in DOMAIN flipped THEN flipped[k] ELSE FALSE]
        ELSE flipped

\* a faulty re-sort on expansion: always ascending
ToggleTreeAscending(h, exp, d, opts, kind, nodeId) ==
    IF ~IsExpanded(exp, nodeId) /\ h.children[nodeId] # <<>>
    THEN LET r == sortNodes(h.children[nodeId], h.children, d,
                            [opts EXCEPT !.sortDirection = "asc"], kind)
         IN  [h EXCEPT !.children = [r.kids EXCEPT ![nodeId] = r.nodes]]
    ELSE h

ToggleTree(h, exp, d, opts, kind, nodeId) ==
    LET currentState == IsExpanded(exp, nodeId)
        currentNode == findNodeById(h, nodeId)
    IN  IF ~currentState /\ currentNode # <<>> /\ h.children[nodeId] # <<>>
        THEN LET r == sortNodes(h.children[nodeId], h.children, d, opts, kind)
             IN  [h EXCEPT !.children = [r.kids EXCEPT ![nodeId] = r.nodes]]
        ELSE h

\* toggleNode (466-498): the view after the new layout lay, oldPos being the
\* position map before the call
ToggleView(h, oldPos, lay, cs, nodeId) ==
    LET rendered == render(h, lay, cs)
    IN  IF nodeId \in DOMAIN lay.pos /\ nodeId \in DOMAIN oldPos
        THEN LET deltaX == PxNum(lay.pos[nodeId].x - oldPos[nodeId].x)
                 moved == [rendered EXCEPT !.tx = RSub(@, RMul(deltaX, rendered.scale))]
             IN  ensureChartIsVisible(lay, cs, autoAdjustZoom(lay, cs, moved))
        ELSE autoAdjustZoom(lay, cs, centerChart(h, lay, cs, rendered))

\* the fields of the chart the operations read and write
Chart ==
    [options |-> options,
     hierarchicalData |-> hierarchicalData, expandedNodes |-> expandedNodes,
     nodePositions |-> nodePositions, nodesAtLevel |-> nodesAtLevel,
     svgWidth |-> svgWidth, svgHeight |-> svgHeight,
     currentScale |-> currentScale, translationX |-> translationX,
     translationY |-> translationY]

\* the layout held by the chart c
LayoutOf(c) ==
    [pos |-> c.nodePositions, nal |-> c.nodesAtLevel,
     svgWidth |-> c.svgWidth, svgHeight |-> c.svgHeight]

\* the chart of options opts, tree h and expansion map exp once the layout
\* lay is computed and the view is set
ChartOf(opts, h, exp, lay, view) ==
    [options |-> opts,
     hierarchicalData |-> h, expandedNodes |-> exp,
     nodePositions |-> lay.pos, nodesAtLevel |-> lay.nal,
     svgWidth |-> lay.svgWidth, svgHeight |-> lay.svgHeight,
     currentScale |-> view.scale, translationX |-> view.tx,
     translationY |-> view.ty]

SetChart(c) ==
    /\ options' = c.options
    /\ hierarchicalData' = c.hierarchicalData
    /\ expandedNodes' = c.expandedNodes
    /\ nodePositions' = c.nodePositions
    /\ nodesAtLevel' = c.nodesAtLevel
    /\ svgWidth' = c.svgWidth
    /\ svgHeight' = c.svgHeight
    /\ currentScale' = c.currentScale
    /\ translationX' = c.translationX
    /\ translationY' = c.translationY

\* toggleNode (433-499) on the chart c
toggleNode(c, d, kind, cs, nodeId) ==
    LET h == ToggleTree(c.hierarchicalData, c.expandedNodes, d, c.options, kind, nodeId)
        exp == ToggleExpansion(c.hierarchicalData, c.expandedNodes, nodeId)
        lay == calculateDimensions(h, exp, EmptyLayout)
    IN  ChartOf(c.options, h, exp, lay, ToggleView(h, c.nodePositions, lay, cs, nodeId))

ToggleNode(nodeId) ==
    /\ SetChart(toggleNode(Chart, data, idKind, containerSize, nodeId))
    /\ UNCHANGED <<dataVars, centerTimer>>

\* calculateDimensions(); render(); autoAdjustZoom(): the tail of expandAll,
\* collapseAll and changeSortOrder
Relayout(c, opts, h, exp, cs) ==
    LET lay == calculateDimensions(h, exp, LayoutOf(c))
    IN  ChartOf(opts, h, exp, lay, autoAdjustZoom(lay, cs, render(h, lay, cs)))

\* a faulty expandAll that leaves the expansion map as it is
ExpandAllMapKept(exp) == exp

\* expandAll (1239-1255)
ExpandAllMap(exp) == [k \in DOMAIN exp |-> TRUE]

expandAll(c, cs) ==
    Relayout(c, c.options, c.hierarchicalData, ExpandAllMap(c.expandedNodes), cs)

ExpandAll ==
    /\ SetChart(expandAll(Chart, containerSize))
    /\ UNCHANGED <<dataVars, centerTimer>>

\* collapseAll (1260-1288)
RECURSIVE collapseByLevel(_, _, _, _, _)
collapseByLevel(nodes, level, h, opts, exp) ==
    IF nodes = <<>> THEN exp
    ELSE LET node == Head(nodes)
             e1 == [k \in DOMAIN exp \cup {node} |->
                       IF k = node THEN level < opts.initialVisibleLevels ELSE exp[k]]
             e2 == IF h.children[node] # <<>>
                   THEN collapseByLevel(h.children[node], level + 1, h, opts, e1)
                   ELSE e1
         IN  collapseByLevel(Tail(nodes), level, h, opts, e2)

collapseAll(c, cs) ==
    Relayout(c, c.options, c.hierarchicalData,
             collapseByLevel(c.hierarchicalData.roots, 0, c.hierarchicalData,
                             c.options, c.expandedNodes),
             cs)

CollapseAll ==
    /\ SetChart(collapseAll(Chart, containerSize))
    /\ UNCHANGED <<dataVars, centerTimer>>

\* changeSortOrder (1717-1758), reached through setSortOrder (1767-1769)
SortedTree(h, d, opts, kind) ==
    LET s == sortAllLevels(h.roots, h.children, d, opts, kind)
    IN  [h EXCEPT !.roots = s.nodes, !.children = s.kids]

\* a faulty changeSortOrder that reprocesses the data and does not restore
\* the expansion map
changeSortOrderResetting(c, d, kind, cs, sortBy, sortDirection) ==
    LET opts == [c.options EXCEPT !.sortBy = sortBy, !.sortDirection = sortDirection]
        h == processData(d, opts, kind)
    IN  Relayout(c, opts, h, configureInitialExpansion(h, opts, <<>>), cs)

changeSortOrder(c, d, kind, cs, sortBy, sortDirection) ==
    LET opts == [c.options EXCEPT !.sortBy = sortBy, !.sortDirection = sortDirection]
    IN  Relayout(c, opts, SortedTree(c.hierarchicalData, d, opts, kind), c.expandedNodes, cs)

setSortOrder(c, d, kind, cs, sortBy, sortDirection) ==
    changeSortOrder(c, d, kind, cs, sortBy, sortDirection)

SetSortOrder(sortBy, sortDirection) ==
    /\ SetChart(setSortOrder(Chart, data, idKind, containerSize, sortBy, sortDirection))
    /\ UNCHANGED <<dataVars, centerTimer>>

\* resize (1348-1351)
resize(c, cs) ==
    LET lay == calculateDimensions(c.hierarchicalData, c.expandedNodes, LayoutOf(c))
    IN  ChartOf(c.options, c.hierarchicalData, c.expandedNodes, lay,
                render(c.hierarchicalData, lay, cs))

Resize ==
    /\ SetChart(resize(Chart, containerSize))
    /\ UNCHANGED <<dataVars, centerTimer>>

\* the callback of centerOrgChart (771-801), 100 ms after initialize
centerOrgChart(h, lay, cs, view) ==
    IF Len(h.roots) > 0
    THEN IF h.roots[1] \in DOMAIN lay.pos
         THEN [scale |-> view.scale,
               tx |-> RSub(RDiv(Num(cs[1]), Two), PxNum(lay.pos[h.roots[1]].x)),
               ty |-> Num(50)]
         ELSE view
    ELSE centerChart(h, lay, cs, view)

CenterOrgChartTimeout ==
    /\ centerTimer > 0
    /\ centerTimer' = centerTimer - 1
    /\ SetView(centerOrgChart(hierarchicalData, CurrentLayout, containerSize, CurrentView))
    /\ UNCHANGED <<dataVars, options, hierarchicalData, expandedNodes,
                   nodePositions, nodesAtLevel, svgWidth, svgHeight>>

\* resetView (806-818)
ResetView ==
    /\ SetView(centerChart(hierarchicalData, CurrentLayout, containerSize,
                           [CurrentView EXCEPT !.scale = Num(1)]))
    /\ UNCHANGED <<dataVars, options, hierarchicalData, expandedNodes,
                   nodePositions, nodesAtLevel, svgWidth, svgHeight, centerTimer>>

\* adjustZoom(delta): the zoom buttons and the wheel pass +0.1 or -0.1
AdjustZoom(delta) ==
    /\ SetView(adjustZoom(containerSize, CurrentView, delta))
    /\ UNCHANGED <<dataVars, options, hierarchicalData, expandedNodes,
                   nodePositions, nodesAtLevel, svgWidth, svgHeight, centerTimer>>

\* setZoom(newZoom)
SetZoom(newZoom) ==
    /\ SetView(setZoom(containerSize, CurrentView, newZoom))
    /\ UNCHANGED <<dataVars, options, hierarchicalData, expandedNodes,
                   nodePositions, nodesAtLevel, svgWidth, svgHeight, centerTimer>>

(***************************************************************************)
(* Construction: constructor (16-73) and initialize (78-90).               *)
(***************************************************************************)
defaultOptions ==
    [sortBy |-> "name", sortDirection |-> "asc",
     initiallyExpanded |-> FALSE, initialVisibleLevels |-> 1]

ContainerSizes == {<<800, 600>>}

Construct(d, kind, opts, cs) ==
    LET h == processData(d, opts, kind)
        exp == configureInitialExpansion(h, opts, <<>>)
        lay == calculateDimensions(h, exp, EmptyLayout)
        view == render(h, lay, cs)
    IN  /\ data = d
        /\ idKind = kind
        /\ options = opts
        /\ containerSize = cs
        /\ hierarchicalData = h
        /\ expandedNodes = exp
        /\ nodePositions = lay.pos
        /\ nodesAtLevel = lay.nal
        /\ svgWidth = lay.svgWidth
        /\ svgHeight = lay.svgHeight
        /\ currentScale = view.scale
        /\ translationX = view.tx
        /\ translationY = view.ty

\* no pointer is down and no drag was started (1602-1604; HTMLOrgChart.js
\* 3159-3161)
NoDrag ==
    /\ isDragging = FALSE
    /\ dragStartX = Num(0)
    /\ dragStartY = Num(0)
    /\ lastX = 0
    /\ lastY = 0
    /\ pointer = "none"
    /\ pointerAt = <<0, 0>>
    /\ events = 0

\* no HTMLOrgChart is on the page: its fields keep the values of an idle chart
NoHtmlChart ==
    /\ scale = Num(1)
    /\ translateX = Num(0)
    /\ translateY = Num(0)
    /\ transform = [tx |-> Num(0), ty |-> Num(0), scale |-> Num(1)]
    /\ boundaries = <<>>
    /\ singleNode = FALSE
    /\ initialCenter = 0
    /\ wheelZoomTimeout = FALSE
    /\ redrawTimers = 0
    /\ gestures = 0

\* new SimpleOrgChart(config): initialize leaves the centerOrgChart timeout
NewSimpleOrgChart(d, kind, opts, cs) ==
    /\ Construct(d, kind, opts, cs)
    /\ centerTimer = 1
    /\ NoHtmlChart
    /\ thrown = ""
    /\ mounted = {"SimpleOrgChart"}
    /\ NoDrag

Init ==
    \E d \in DataSets, cs \in ContainerSizes :
        NewSimpleOrgChart(d, "number", defaultOptions, cs)

InitSort ==
    \E d \in SortDataSets, kind \in IdKinds, cs \in ContainerSizes :
        NewSimpleOrgChart(d, kind, defaultOptions, cs)

NodeIds == DOMAIN hierarchicalData.children

SortFields == {"name", "id"}
SortDirections == {"asc", "desc"}

Next ==
    \/ \E n \in NodeIds : ToggleNode(n)
    \/ ExpandAll
    \/ CollapseAll
    \/ \E f \in SortFields, dir \in SortDirections : SetSortOrder(f, dir)
    \/ Resize
    \/ CenterOrgChartTimeout

Spec == Init /\ [][Next]_vars

SpecSort == InitSort /\ [][Next]_vars

(***************************************************************************)
(* The zoom operations of SimpleOrgChart.  The buttons and the wheel call  *)
(* adjustZoom(0.1) and adjustZoom(-0.1) (1475, 1497, 1656-1660); setZoom   *)
(* is a public method, called here with a level inside and a level outside *)
(* the range of the slider.                                                *)
(***************************************************************************)
ZoomDeltas == {Rat(1, 10), Rat(-1, 10)}
ZoomLevels == {Num(2), Num(5)}

InitView ==
    \E d \in ViewDataSets, cs \in ContainerSizes :
        NewSimpleOrgChart(d, "number", defaultOptions, cs)

ZoomNext ==
    \/ \E delta \in ZoomDeltas : AdjustZoom(delta)
    \/ \E z \in ZoomLevels : SetZoom(z)
    \/ ResetView

NextView == Next \/ ZoomNext

SpecView == InitView /\ [][NextView]_vars

\* the same chart when the callers pass scales that are no zoom levels
InvalidScales == {NaN, Num(0), Num(-1)}

InvalidNext ==
    \/ \E z \in InvalidScales : SetZoom(z)
    \/ AdjustZoom(NaN)

NextInvalid == NextView \/ InvalidNext

SpecInvalid == InitView /\ [][NextInvalid]_vars

(***************************************************************************)
(* The viewport of HTMLOrgChart.  The chart container is a box of the size *)
(* of the container (render, 2611-2617) that the style transform           *)
(* translate(tx, ty) scale(s) maps around its centre (transform-origin:    *)
(* center, HTMLOrgChart.css 19).  Points are <<x, y>> in pixels from the   *)
(* top left corner of the container.                                       *)
(***************************************************************************)
initialZoom == Rat(4, 5)

HtmlChart ==
    [scale |-> scale, translateX |-> translateX, translateY |-> translateY,
     transform |-> transform, boundaries |-> boundaries,
     wheelZoomTimeout |-> wheelZoomTimeout, redrawTimers |-> redrawTimers]

SetHtmlChart(c) ==
    /\ scale' = c.scale
    /\ translateX' = c.translateX
    /\ translateY' = c.translateY
    /\ transform' = c.transform
    /\ boundaries' = c.boundaries
    /\ wheelZoomTimeout' = c.wheelZoomTimeout
    /\ redrawTimers' = c.redrawTimers

\* the width and height of the .organigrama element without transformation
orgSize == <<360, 200>>

\* the centre of the one visible node in the box of the chart container
nodeCentre == <<400, 100>>

\* the transformation the style holds after applyTransform (3173-3175)
Applied(c) == [tx |-> c.translateX, ty |-> c.translateY, scale |-> c.scale]

\* where the transformation t shows the point p of the chart container
OnScreen(t, cs, p) ==
    <<RAdd(RAdd(RDiv(Num(cs[1]), Two), t.tx),
           RMul(t.scale, RSub(Num(p[1]), RDiv(Num(cs[1]), Two)))),
      RAdd(RAdd(RDiv(Num(cs[2]), Two), t.ty),
           RMul(t.scale, RSub(Num(p[2]), RDiv(Num(cs[2]), Two))))>>

\* setupBoundaries (3765-3780): the size of .organigrama is measured under
\* the transformation t and multiplied by this.scale
setupBoundaries(c, cs, t) ==
    [containerWidth |-> Num(cs[1]), containerHeight |-> Num(cs[2]),
     orgWidth |-> RMul(RMul(Num(orgSize[1]), t.scale), c.scale),
     orgHeight |-> RMul(RMul(Num(orgSize[2]), t.scale), c.scale)]

\* forceCenterWithScale (2357-2405)
ValidScale(s) == IF IsNaN(s) \/ RLeq(s, Num(0)) THEN Num(1) ELSE s

ForceCentred(c, cs, s) ==
    [c EXCEPT !.scale = s, !.translateX = Num(0), !.translateY = Num(0),
              !.transform = [tx |-> Num(0), ty |-> Num(0), scale |-> s],
              !.boundaries = setupBoundaries([c EXCEPT !.scale = s], cs,
                                             [tx |-> Num(0), ty |-> Num(0), scale |-> s]),
              !.redrawTimers = @ + 1]

forceCenterWithScale(c, cs, s) == ForceCentred(c, cs, ValidScale(s))

\* handleWheel (3315-3349) for a wheel event at the point f of the container
WheelDelta(deltaY) == IF deltaY > 0 THEN Rat(-1, 10) ELSE Rat(1, 10)

\* the zoom around the point <<mouseX, mouseY>> by delta
ZoomedAround(c, mouseX, mouseY, delta) ==
    LET mouseChartX == RDiv(RSub(mouseX, c.translateX), c.scale)
        mouseChartY == RDiv(RSub(mouseY, c.translateY), c.scale)
        newScale == MathMax(Rat(1, 10), MathMin(Num(3), RAdd(c.scale, delta)))
    IN  [c EXCEPT !.scale = newScale,
                  !.translateX = RSub(mouseX, RMul(mouseChartX, newScale)),
                  !.translateY = RSub(mouseY, RMul(mouseChartY, newScale))]

\* the zoomed chart with the transformation applied to the style
WithTransform(c) == [c EXCEPT !.transform = Applied(c)]

\* rect = chartContainer.getBoundingClientRect(): the corner of the box as
\* the current style transformation shows it
handleWheel(c, cs, f, deltaY) ==
    LET rect == OnScreen(c.transform, cs, <<0, 0>>)
    IN  [WithTransform(ZoomedAround(c, RSub(Num(f[1]), rect[1]), RSub(Num(f[2]), rect[2]),
                                    WheelDelta(deltaY)))
            EXCEPT !.wheelZoomTimeout = TRUE]

\* adjustZoom (3393-3421)
htmlAdjustZoom(c, cs, delta) ==
    [WithTransform(ZoomedAround(c, RDiv(Num(cs[1]), Two), RDiv(Num(cs[2]), Two), delta))
        EXCEPT !.redrawTimers = @ + 1]

\* resetView (3426-3431)
htmlResetView(c, cs) == forceCenterWithScale(c, cs, initialZoom)

\* _centerSingleVisibleNode (3562-3621), the last step of redrawAllConnectors
ThresholdExceeded(deltaX, deltaY) ==
    RLess(Num(20), MathAbs(deltaX)) \/ RLess(Num(20), MathAbs(deltaY))

MovedBy(c, deltaX, deltaY) ==
    IF ThresholdExceeded(deltaX, deltaY)
    THEN WithTransform([c EXCEPT !.translateX = RAdd(@, deltaX),
                                 !.translateY = RAdd(@, deltaY)])
    ELSE c

centerSingleVisibleNode(c, cs, single) ==
    IF single
    THEN MovedBy(c, RSub(RDiv(Num(cs[1]), Two), OnScreen(c.transform, cs, nodeCentre)[1]),
                    RSub(RDiv(Num(cs[2]), Two), OnScreen(c.transform, cs, nodeCentre)[2]))
    ELSE c

redrawAllConnectors(c, cs, single) == centerSingleVisibleNode(c, cs, single)

(***************************************************************************)
(* The operations of HTMLOrgChart on the viewport.                         *)
(***************************************************************************)
\* what no operation of HTMLOrgChart writes
pageVars == <<svgVars, containerSize, singleNode, pageState, dragVars>>

\* new HTMLOrgChart(config): setupZoomControls (3164-3168) sets the scale,
\* render (2643) and initialize (2343-2350) leave their timeouts
NewHTMLOrgChart(single) ==
    /\ scale = initialZoom
    /\ translateX = Num(0)
    /\ translateY = Num(0)
    /\ transform = [tx |-> Num(0), ty |-> Num(0), scale |-> Num(1)]
    /\ boundaries = <<>>
    /\ singleNode = single
    /\ initialCenter = 2
    /\ wheelZoomTimeout = FALSE
    /\ redrawTimers = 1
    /\ gestures = 0

\* the two timeouts of initialize (2343-2350), the second set by the first
InitialCenterTimeout ==
    /\ initialCenter > 0
    /\ redrawTimers < MaxRedrawTimers
    /\ initialCenter' = initialCenter - 1
    /\ SetHtmlChart(forceCenterWithScale(HtmlChart, containerSize, initialZoom))
    /\ UNCHANGED <<pageVars, gestures>>

HandleWheel(f, deltaY) ==
    /\ gestures < MaxGestures
    /\ gestures' = gestures + 1
    /\ SetHtmlChart(handleWheel(HtmlChart, containerSize, f, deltaY))
    /\ UNCHANGED <<pageVars, initialCenter>>

HtmlAdjustZoom(delta) ==
    /\ gestures < MaxGestures
    /\ redrawTimers < MaxRedrawTimers
    /\ gestures' = gestures + 1
    /\ SetHtmlChart(htmlAdjustZoom(HtmlChart, containerSize, delta))
    /\ UNCHANGED <<pageVars, initialCenter>>

HtmlResetView ==
    /\ redrawTimers < MaxRedrawTimers
    /\ SetHtmlChart(htmlResetView(HtmlChart, containerSize))
    /\ UNCHANGED <<pageVars, initialCenter, gestures>>

\* the debounced timeout of handleWheel (3344-3348)
WheelZoomTimeout ==
    /\ wheelZoomTimeout
    /\ SetHtmlChart([redrawAllConnectors(HtmlChart, containerSize, singleNode)
                        EXCEPT !.wheelZoomTimeout = FALSE])
    /\ UNCHANGED <<pageVars, initialCenter, gestures>>

\* a timeout of render, forceCenterWithScale or adjustZoom
RedrawTimeout ==
    /\ redrawTimers > 0
    /\ SetHtmlChart([redrawAllConnectors(HtmlChart, containerSize, singleNode)
                        EXCEPT !.redrawTimers = @ - 1])
    /\ UNCHANGED <<pageVars, initialCenter, gestures>>

\* the points of the container the wheel is turned at, and its deltaY
FocalPoints == {<<400, 300>>, <<200, 150>>}
WheelDeltaYs == {-100, 100}

InitHtml ==
    \E single \in BOOLEAN, cs \in ContainerSizes :
        /\ Construct(<<>>, "number", defaultOptions, cs)
        /\ centerTimer = 0
        /\ NewHTMLOrgChart(single)
        /\ thrown = ""
        /\ mounted = {"HTMLOrgChart"}
        /\ NoDrag

NextHtml ==
    \/ InitialCenterTimeout
    \/ \E f \in FocalPoints, deltaY \in WheelDeltaYs : HandleWheel(f, deltaY)
    \/ \E delta \in ZoomDeltas : HtmlAdjustZoom(delta)
    \/ HtmlResetView
    \/ WheelZoomTimeout
    \/ RedrawTimeout

SpecHtml == InitHtml /\ [][NextHtml]_vars

(***************************************************************************)
(* Construction on a page.  A configuration names its container by id:     *)
(* "" is a missing container, "chart" and "tree" are elements of the page  *)
(* and "ghost" is the id of no element; hasData tells whether config.data  *)
(* is given.                                                               *)
(***************************************************************************)
PageElements == {"chart", "tree"}
ContainerIds == {"", "ghost"} \cup PageElements

NewDataSets == UNION {DataSetsOfSize(n, {"ann"}) : n \in 0..MaxNewNodes}

Configs == [container : ContainerIds, hasData : BOOLEAN, data : NewDataSets]

\* a configuration the validation rejects whatever it holds
NoConfigurationError(config) == ""

\* the validation at the head of both constructors (SimpleOrgChart.js 18-29,
\* HTMLOrgChart.js 2246-2257): the exception thrown, "" if none
ConfigurationError(config) ==
    IF config.container = "" THEN "Error"
    ELSE IF ~config.hasData THEN "Error"
    ELSE IF config.container \notin PageElements THEN "Error"
    ELSE ""

\* initialize (78-90) up to render: the chart of the data d
initialize(d, kind, opts, cs) ==
    LET h == processData(d, opts, kind)
        exp == configureInitialExpansion(h, opts, <<>>)
        lay == calculateDimensions(h, exp, EmptyLayout)
    IN  ChartOf(opts, h, exp, lay, render(h, lay, cs))

\* new SimpleOrgChart(config) on a page without such a chart
ConstructSimpleOrgChart(config) ==
    /\ "SimpleOrgChart" \notin mounted
    /\ thrown' = ConfigurationError(config)
    /\ IF ConfigurationError(config) # ""
       THEN UNCHANGED <<svgVars, mounted>>
       ELSE /\ data' = config.data
            /\ idKind' = "number"
            /\ SetChart(initialize(config.data, "number", defaultOptions, containerSize))
            /\ centerTimer' = centerTimer + 1
            /\ mounted' = mounted \cup {"SimpleOrgChart"}
    /\ UNCHANGED <<htmlVars, containerSize, dragVars>>

\* the viewport new HTMLOrgChart(config) leaves (3164-3168, 2643)
NewHtmlChart ==
    [scale |-> initialZoom, translateX |-> Num(0), translateY |-> Num(0),
     transform |-> [tx |-> Num(0), ty |-> Num(0), scale |-> Num(1)],
     boundaries |-> <<>>, wheelZoomTimeout |-> FALSE, redrawTimers |-> 1]

\* new HTMLOrgChart(config) on a page without such a chart
ConstructHTMLOrgChart(config, single) ==
    /\ "HTMLOrgChart" \notin mounted
    /\ thrown' = ConfigurationError(config)
    /\ IF ConfigurationError(config) # ""
       THEN UNCHANGED <<htmlVars, mounted>>
       ELSE /\ SetHtmlChart(NewHtmlChart)
            /\ singleNode' = single
            /\ initialCenter' = 2
            /\ gestures' = 0
            /\ mounted' = mounted \cup {"HTMLOrgChart"}
    /\ UNCHANGED <<svgVars, containerSize, dragVars>>

\* the page before any chart is constructed
InitPage ==
    \E cs \in ContainerSizes :
        /\ Construct(<<>>, "number", defaultOptions, cs)
        /\ centerTimer = 0
        /\ NoHtmlChart
        /\ thrown = ""
        /\ mounted = {}
        /\ NoDrag

NextNew ==
    \/ \E config \in Configs : ConstructSimpleOrgChart(config)
    \/ \E config \in Configs, single \in BOOLEAN : ConstructHTMLOrgChart(config, single)
    \/ "SimpleOrgChart" \in mounted /\ Next
    \/ "HTMLOrgChart" \in mounted /\ (InitialCenterTimeout \/ RedrawTimeout)

SpecNew == InitPage /\ [][NextNew]_vars

(***************************************************************************)
(* Building the tree from any list of records: ids that repeat, records    *)
(* without id, parents listed after their children, parent ids that name   *)
(* no record, the record itself or a descendant.                           *)
(***************************************************************************)
\* the id of a record without id (node.id is undefined)
NoId == -1

RawIds == 0..MaxRawId

RawRecords == [id : RawIds \cup {NoId}, pid : {<<>>} \cup {<<p>> : p \in RawIds}, name : {"ann"}]

RawDataSets == UNION {[1..n -> RawRecords] : n \in 0..MaxRawRecords}

\* the lists update is called with: a record without parent, or none
UpdateDataSets == {d \in RawDataSets : Len(d) <= 1 /\ \A i \in DOMAIN d : d[i].pid = <<>>}

\* nodeMap once the second pass of processData (121-137) is over, with the
\* root list
nodeMapOf(d, kind) ==
    LET uniqueData == UniqueData(d, {})
        ids == {uniqueData[i].id : i \in DOMAIN uniqueData}
    IN  BuildHierarchy(uniqueData, 1,
                       [roots |-> <<>>, children |-> [n \in ids |-> <<>>],
                        level |-> [n \in ids |-> 0]], kind)

\* node.id.toString() in filterDuplicates (201) throws a TypeError at the
\* record without id, once the walk from the roots reaches it
removeDuplicatesThrows(h) == NoId \in filterDuplicates(h.roots, {}, h.children).seen

processDataThrows(d, kind) == removeDuplicatesThrows(nodeMapOf(d, kind))

\* this.hierarchicalData = null (constructor 58, update 1335)
null == [roots |-> <<>>, children |-> <<>>, level |-> <<>>, null |-> TRUE]

\* new SimpleOrgChart(config) when processData throws: the fields the
\* constructor has set (52-71), nothing rendered, no chart to call
FailedSimpleOrgChart(d, kind, opts, cs) ==
    /\ data = d
    /\ idKind = kind
    /\ options = opts
    /\ containerSize = cs
    /\ hierarchicalData = null
    /\ expandedNodes = <<>>
    /\ nodePositions = <<>>
    /\ nodesAtLevel = <<>>
    /\ svgWidth = Px(800)
    /\ svgHeight = Px(600)
    /\ currentScale = NaN
    /\ translationX = NaN
    /\ translationY = NaN
    /\ centerTimer = 0
    /\ NoHtmlChart
    /\ thrown = "TypeError"
    /\ mounted = {}
    /\ NoDrag

\* the view of the chart c
ViewOf(c) == [scale |-> c.currentScale, tx |-> c.translationX, ty |-> c.translationY]

WithView(c, view) ==
    [c EXCEPT !.currentScale = view.scale, !.translationX = view.tx, !.translationY = view.ty]

\* initialize(); autoAdjustZoom(): the tail of update (1336-1342)
Reinitialized(c, cs) == WithView(c, autoAdjustZoom(LayoutOf(c), cs, ViewOf(c)))

\* update (1327-1343) on the chart c: when processData throws, the fields
\* update has reset stay reset and the rest is as it was
update(c, d, kind, cs) ==
    IF processDataThrows(d, kind)
    THEN [c EXCEPT !.hierarchicalData = null, !.expandedNodes = <<>>]
    ELSE Reinitialized(initialize(d, kind, c.options, cs), cs)

Update(d) ==
    /\ "SimpleOrgChart" \in mounted
    /\ centerTimer < MaxCenterTimers
    /\ data' = d
    /\ SetChart(update(Chart, d, idKind, containerSize))
    /\ thrown' = IF processDataThrows(d, idKind) THEN "TypeError" ELSE ""
    /\ centerTimer' = IF processDataThrows(d, idKind) THEN centerTimer ELSE centerTimer + 1
    /\ UNCHANGED <<idKind, containerSize, htmlVars, mounted, dragVars>>

\* the callback of centerOrgChart when hierarchicalData is null: centerChart
\* (710) throws before it writes anything
CenterOrgChartTimeoutOnNull ==
    /\ hierarchicalData = null
    /\ centerTimer > 0
    /\ centerTimer' = centerTimer - 1
    /\ UNCHANGED <<dataVars, options, hierarchicalData, expandedNodes, nodePositions,
                   nodesAtLevel, svgWidth, svgHeight, currentScale, translationX, translationY>>

InitBuild ==
    \E d \in RawDataSets, kind \in IdKinds, cs \in ContainerSizes :
        IF processDataThrows(d, kind)
        THEN FailedSimpleOrgChart(d, kind, defaultOptions, cs)
        ELSE NewSimpleOrgChart(d, kind, defaultOptions, cs)

NextBuild ==
    \/ \E d \in UpdateDataSets : Update(d)
    \/ hierarchicalData # null /\ CenterOrgChartTimeout
    \/ CenterOrgChartTimeoutOnNull

SpecBuild == InitBuild /\ [][NextBuild]_vars

(***************************************************************************)
(* The normal small charts: no record, one record, and chains in which     *)
(* every node is the only child of the one before.  toggleNode is called   *)
(* with the ids of the chart and with an id no record has.                 *)
(***************************************************************************)
ChainOf(n) == [i \in 1..n |-> [id |-> i, pid |-> IF i = 1 THEN <<>> ELSE <<i - 1>>, name |-> "ann"]]

NormalDataSets == {ChainOf(n) : n \in 0..MaxChain}

UnknownId == MaxChain + 1

\* the operations read this.hierarchicalData without a check (243, 710,
\* 1275): on null they throw a TypeError
OperationThrows(c) == c.hierarchicalData = null

InitNormal ==
    \E d \in NormalDataSets, cs \in ContainerSizes :
        NewSimpleOrgChart(d, "number", defaultOptions, cs)

NextNormal ==
    \/ \E n \in NodeIds \cup {UnknownId} : ToggleNode(n)
    \/ ExpandAll
    \/ CollapseAll
    \/ ResetView
    \/ \E f \in SortFields, dir \in SortDirections : SetSortOrder(f, dir)
    \/ CenterOrgChartTimeout

SpecNormal == InitNormal /\ [][NextNormal]_vars

(***************************************************************************)
(* The duplicates step of HTMLOrgChart.processData (2455-2508).            *)
(***************************************************************************)
\* childRefCount.get(id) || 0 (2475-2479)
childRefCount(d, kind, id) ==
    Cardinality({i \in DOMAIN d : Truthy(d[i].pid, kind) /\ d[i].pid[1] = id})

\* the loop of lines 2482-2489 over the records of one name
RECURSIVE PrimaryNode(_, _, _, _)
PrimaryNode(nodes, primaryNode, d, kind) ==
    IF nodes = <<>> THEN primaryNode
    ELSE PrimaryNode(Tail(nodes),
                     IF childRefCount(d, kind, Head(nodes).id)
                            > childRefCount(d, kind, primaryNode.id)
                     THEN Head(nodes) ELSE primaryNode, d, kind)

\* nodesByName.get(name) (2459-2465)
NodesByName(d, name) == SelectSeq(d, LAMBDA r : r.name = name)

\* the keys of nodeMap after step 2: one record of every name
htmlNodeMapIds(d, kind) ==
    {PrimaryNode(NodesByName(d, d[i].name), NodesByName(d, d[i].name)[1], d, kind).id :
        i \in DOMAIN d}

(***************************************************************************)
(* Notions of the specification the properties are stated with.            *)
(***************************************************************************)
\* the visible set: the roots, and the children of visible expanded nodes
RECURSIVE GrowVisible(_, _, _)
GrowVisible(h, exp, S) ==
    LET T == S \cup {c \in DOMAIN h.children :
                        \E m \in S : /\ m \in DOMAIN exp
                                     /\ exp[m]
                                     /\ c \in Range(h.children[m])}
    IN  IF T = S THEN S ELSE GrowVisible(h, exp, T)

VisibleIn(h, exp) == GrowVisible(h, exp, Range(h.roots))

VisibleSet == VisibleIn(hierarchicalData, expandedNodes)

\* the strict descendants of n
RECURSIVE GrowDescendants(_, _)
GrowDescendants(h, S) ==
    LET T == S \cup {c \in DOMAIN h.children : \E m \in S : c \in Range(h.children[m])}
    IN  IF T = S THEN S ELSE GrowDescendants(h, T)

StrictDescendants(h, n) == GrowDescendants(h, Range(h.children[n]))

\* the visible children of a visible node
ShownChildren(n) ==
    IF n \in DOMAIN expandedNodes /\ expandedNodes[n]
    THEN Range(hierarchicalData.children[n]) ELSE {}

MinimumDistance == Px(nodeWidth) + Px(horizontalSpacing)

\* two distinct nodes of one level closer than the minimum distance in pos
Overlapping(pos) ==
    {pair \in (DOMAIN pos) \X (DOMAIN pos) :
        /\ pair[1] # pair[2]
        /\ pos[pair[1]].level = pos[pair[2]].level
        /\ AbsInt(pos[pair[1]].x - pos[pair[2]].x) < MinimumDistance}

\* the positions assignXPositions leaves for the same-level pass
PlacedPositions ==
    assignXPositions(hierarchicalData, expandedNodes, hierarchicalData.roots,
                     Px(horizontalSpacing), 0, EmptyLayout).pos

(***************************************************************************)
(* C1  No-overlap: after calculateDimensions every two distinct visible    *)
(* nodes of the same level are at least nodeWidth + horizontalSpacing      *)
(* apart.                                                                  *)
(***************************************************************************)
NoOverlap == Overlapping(nodePositions) = {}

\* a layout in which the same-level pass had two nodes to pull apart
NoOverlapWitness ==
    /\ Overlapping(PlacedPositions) # {}
    /\ Overlapping(nodePositions) = {}

(***************************************************************************)
(* C2  Centering: in the final position map every visible node with a      *)
(* visible child has x = (min x of its visible children + max x of its     *)
(* visible children) / 2.                                                  *)
(***************************************************************************)
ParentsCentered ==
    \A n \in DOMAIN nodePositions :
        ShownChildren(n) # {} =>
            LET xs == {nodePositions[c].x : c \in ShownChildren(n) \cap DOMAIN nodePositions}
            IN  2 * nodePositions[n].x = SetMin(xs) + SetMax(xs)

(***************************************************************************)
(* C3  The ids with an entry in nodePositions are exactly the visible      *)
(* set, after construction and after every operation that recomputes the   *)
(* layout.                                                                 *)
(***************************************************************************)
PositionsAreVisibleSet == DOMAIN nodePositions = VisibleSet

\* a node that was expanded is hidden now, below a collapsed ancestor, and
\* nodes of two levels are shown
PositionsAreVisibleSetWitness ==
    /\ DOMAIN nodePositions = VisibleSet
    /\ \E n \in DOMAIN expandedNodes \ VisibleSet :
          expandedNodes[n] /\ hierarchicalData.children[n] # <<>>
    /\ \E n \in VisibleSet : nodePositions[n].level = 1

(***************************************************************************)
(* C4  toggleNode(n) flips exactly the entry expanded[n]; the visibility   *)
(* of every node that is not a strict descendant of n is unchanged.        *)
(***************************************************************************)
ToggleFlipsOneEntry ==
    \A n \in NodeIds :
        LET c == toggleNode(Chart, data, idKind, containerSize, n)
        IN  /\ DOMAIN c.expandedNodes = DOMAIN expandedNodes
            /\ \A k \in DOMAIN expandedNodes :
                  c.expandedNodes[k] = IF k = n THEN ~expandedNodes[k] ELSE expandedNodes[k]
            /\ \A m \in NodeIds \ StrictDescendants(hierarchicalData, n) :
                  (m \in VisibleIn(c.hierarchicalData, c.expandedNodes)) <=> (m \in VisibleSet)

\* two nodes of one level, both with children, one expanded and one
\* collapsed (only toggleNode tells the nodes of a level apart), and an
\* expanded node hidden below a collapsed one
ToggleFlipsOneEntryWitness ==
    /\ \E a, b \in NodeIds :
          /\ hierarchicalData.level[a] = hierarchicalData.level[b]
          /\ hierarchicalData.children[a] # <<>>
          /\ hierarchicalData.children[b] # <<>>
          /\ expandedNodes[a]
          /\ ~expandedNodes[b]
    /\ \E n \in NodeIds \ VisibleSet : expandedNodes[n]

(***************************************************************************)
(* C5  For a visible expanded node n, toggleNode(n) twice in a row gives   *)
(* the same expansion map, the same visible set and the same nodePositions *)
(* as before the two calls.                                                *)
(***************************************************************************)
ToggledTwice(n) ==
    toggleNode(toggleNode(Chart, data, idKind, containerSize, n),
               data, idKind, containerSize, n)

ToggleRoundTrip ==
    \A n \in VisibleSet :
        expandedNodes[n] =>
            LET c == ToggledTwice(n)
            IN  /\ c.expandedNodes = expandedNodes
                /\ VisibleIn(c.hierarchicalData, c.expandedNodes) = VisibleSet
                /\ c.nodePositions = nodePositions

\* a visible expanded node with two children, one of them collapsed with
\* children of its own, in a chart sorted in descending order
ToggleRoundTripWitness ==
    /\ options.sortDirection = "desc"
    /\ \E n \in VisibleSet :
          /\ expandedNodes[n]
          /\ Len(hierarchicalData.children[n]) >= 2
          /\ ToggledTwice(n).nodePositions = nodePositions
          /\ toggleNode(Chart, data, idKind, containerSize, n).nodePositions
                # nodePositions

(***************************************************************************)
(* C6  Layout idempotence: resize() (calculateDimensions on the same tree  *)
(* and expansion map) leaves nodePositions, svgWidth and svgHeight as they *)
(* are; positions left by the earlier layout do not matter.                *)
(***************************************************************************)
LayoutIdempotent ==
    [][Resize => UNCHANGED <<nodePositions, svgWidth, svgHeight>>]_vars

\* a layout of three levels, taller than the default drawing surface, with
\* two nodes pulled apart by the same-level pass
LayoutIdempotentWitness ==
    /\ \E n \in DOMAIN nodePositions : nodePositions[n].level = 2
    /\ svgHeight > Px(600)
    /\ Overlapping(PlacedPositions) # {}
    /\ calculateDimensions(hierarchicalData, expandedNodes, CurrentLayout).pos = nodePositions

(***************************************************************************)
(* C7  Round-trip sort: after setSortOrder('name', 'asc') followed by      *)
(* setSortOrder('name', 'desc') the list of roots and the list of children *)
(* of every node are the exact reverse of what they were after the         *)
(* ascending sort, also for siblings of equal names, for integer and for   *)
(* string ids.                                                             *)
(***************************************************************************)
SortedAscending == setSortOrder(Chart, data, idKind, containerSize, "name", "asc")

SortedAscendingThenDescending ==
    setSortOrder(SortedAscending, data, idKind, containerSize, "name", "desc")

DescendingReversesAscending ==
    /\ SortedAscendingThenDescending.hierarchicalData.roots
          = Reverse(SortedAscending.hierarchicalData.roots)
    /\ \A n \in NodeIds :
          SortedAscendingThenDescending.hierarchicalData.children[n]
             = Reverse(SortedAscending.hierarchicalData.children[n])

(***************************************************************************)
(* C8  Zoom-focal invariant of HTMLOrgChart: for a wheel zoom at the focal *)
(* point f and for adjustZoom(delta), whose focal point is the centre of   *)
(* the container, the content-space point (f - translate) / scale is the   *)
(* same before and after the call, on both axes, also when the new scale   *)
(* is clamped.                                                             *)
(***************************************************************************)
ContentPoint(f) ==
    <<RDiv(RSub(Num(f[1]), translateX), scale), RDiv(RSub(Num(f[2]), translateY), scale)>>

ContainerCentre == <<containerSize[1] \div 2, containerSize[2] \div 2>>

ZoomKeepsFocalPoint ==
    [][/\ \A f \in FocalPoints, deltaY \in WheelDeltaYs :
             HandleWheel(f, deltaY) => ContentPoint(f)' = ContentPoint(f)
       /\ \A delta \in ZoomDeltas :
             HtmlAdjustZoom(delta) => ContentPoint(ContainerCentre)' = ContentPoint(ContainerCentre)
      ]_vars

(***************************************************************************)
(* C9  Scale bounds: after any sequence of the public viewport and tree    *)
(* operations the scale of SimpleOrgChart lies within [0.5, 3].            *)
(***************************************************************************)
ScaleWithinBounds ==
    /\ RLeq(Rat(1, 2), currentScale)
    /\ RLeq(currentScale, Num(3))

(***************************************************************************)
(* C10  Invalid scale inputs never propagate: after setZoom or adjustZoom  *)
(* is passed NaN or a value <= 0 the stored scale is a valid positive      *)
(* number, never NaN and never <= 0.                                       *)
(***************************************************************************)
StoredScaleIsValid ==
    /\ ~IsNaN(currentScale)
    /\ RLess(Num(0), currentScale)

(***************************************************************************)
(* C11  Construction fails atomically: new SimpleOrgChart(config) and new  *)
(* HTMLOrgChart(config) throw when config.container is missing, when       *)
(* config.data is missing and when the container id names no element, and  *)
(* then nothing is rendered and no timer or listener is registered: every  *)
(* field of the page and of the charts is as it was before the call.       *)
(***************************************************************************)
InvalidConfigs ==
    {config \in Configs :
        config.container = "" \/ ~config.hasData \/ config.container \notin PageElements}

FailedAtomically ==
    /\ thrown' = "Error"
    /\ UNCHANGED <<mounted, centerTimer, initialCenter, redrawTimers, wheelZoomTimeout>>
    /\ UNCHANGED <<svgVars, htmlVars>>

ConstructionFailsAtomically ==
    [][\A config \in InvalidConfigs :
          /\ ConstructSimpleOrgChart(config) => FailedAtomically
          /\ \A single \in BOOLEAN : ConstructHTMLOrgChart(config, single) => FailedAtomically
      ]_vars

\* a construction has failed on a page that shows the HTML chart, one of
\* whose initialize timeouts has run
ConstructionFailsAtomicallyWitness ==
    /\ thrown = "Error"
    /\ mounted = {"HTMLOrgChart"}
    /\ initialCenter = 1

(***************************************************************************)
(* Notions of the claims on the built tree.                                *)
(***************************************************************************)
\* the ids of the records of the input that have one
InputIds == {data[i].id : i \in DOMAIN data} \ {NoId}

\* the nodes of the tree: those the walk from the roots meets
ForestIds == TreeIds(hierarchicalData, hierarchicalData.roots)

\* the surviving records: the keys of nodeMap
Surviving == DOMAIN hierarchicalData.children

\* the nodes whose children list holds n
ParentsOf(n) == {p \in Surviving : n \in Range(hierarchicalData.children[p])}

\* how often n stands in the root list and in the children lists
CountIn(list, n) == Cardinality({i \in DOMAIN list : list[i] = n})

Occurrences(n) ==
    CountIn(hierarchicalData.roots, n)
        + Cardinality({p \in Surviving : n \in Range(hierarchicalData.children[p])})

(***************************************************************************)
(* C12  A record without id is skipped and is not fatal: building the tree *)
(* from a list that holds such a record completes without throwing, and    *)
(* the forest holds exactly the records that have an id.                   *)
(***************************************************************************)
MissingIdIsSkipped ==
    (\E i \in DOMAIN data : data[i].id = NoId)
        => /\ thrown = ""
           /\ ForestIds = InputIds

(***************************************************************************)
(* C13  Deduplication by id: the built tree holds exactly one node for     *)
(* every distinct id of the input; of the records that share an id the     *)
(* one most other records name as parent is retained, the first of them    *)
(* in input order on a tie; records of distinct ids are never merged or    *)
(* dropped, in SimpleOrgChart and in HTMLOrgChart.                         *)
(***************************************************************************)
\* the number of other records that name record i as parent
ReferencesTo(d, i) == Cardinality({k \in DOMAIN d \ {i} : d[k].pid = <<d[i].id>>})

\* the definitive record of the id of record i is record i
IsDefinitive(d, i) ==
    \A j \in DOMAIN d :
        d[j].id = d[i].id /\ j # i
            => \/ ReferencesTo(d, j) < ReferencesTo(d, i)
               \/ ReferencesTo(d, j) = ReferencesTo(d, i) /\ i < j

RECURSIVE DefinitiveFrom(_, _)
DefinitiveFrom(d, i) ==
    IF i > Len(d) THEN <<>>
    ELSE (IF IsDefinitive(d, i) THEN <<d[i]>> ELSE <<>>) \o DefinitiveFrom(d, i + 1)

DeduplicatedById ==
    (thrown = "" /\ NoId \notin {data[i].id : i \in DOMAIN data})
        => /\ ForestIds = InputIds
           /\ \A n \in InputIds : Occurrences(n) = 1
           /\ hierarchicalData = processData(DefinitiveFrom(data, 1), options, idKind)
           /\ htmlNodeMapIds(data, idKind) = InputIds

(***************************************************************************)
(* C14  Parent resolution: a surviving record is a root if and only if its *)
(* parent id is the id of no surviving record; otherwise it is in the      *)
(* children list of exactly the record its parent id names.  This holds    *)
(* for every id, the id 0 included.  It is stated for the records that do  *)
(* not name themselves as parent.                                          *)
(***************************************************************************)
NamesSurvivor(rec) == rec.pid # <<>> /\ rec.pid[1] \in Surviving

ParentsResolved ==
    thrown = ""
        => \A n \in Surviving \ {NoId} :
              LET rec == RecordOf(data, n)
              IN  rec.pid # <<n>>
                    => /\ (n \in Range(hierarchicalData.roots)) <=> ~NamesSurvivor(rec)
                       /\ NamesSurvivor(rec) => ParentsOf(n) = {rec.pid[1]}

(***************************************************************************)
(* C15  Level invariant: whatever the order of the records, parents before *)
(* or after their children, every root of the built tree has level 0 and   *)
(* every other node of the tree has the level of its parent plus one.      *)
(***************************************************************************)
LevelsFollowParents ==
    thrown = ""
        => /\ \A r \in Range(hierarchicalData.roots) : hierarchicalData.level[r] = 0
           /\ \A p \in ForestIds : \A c \in Range(hierarchicalData.children[p]) :
                 hierarchicalData.level[c] = hierarchicalData.level[p] + 1

(***************************************************************************)
(* C16  The built structure is a forest for every input list, parent ids   *)
(* that name each other or the record itself included: no node is its own  *)
(* ancestor, every node has at most one parent and every surviving record  *)
(* is reachable from a root.                                               *)
(***************************************************************************)
BuiltForest ==
    thrown = ""
        => /\ \A n \in Surviving : n \notin StrictDescendants(hierarchicalData, n)
           /\ \A n \in Surviving : Cardinality(ParentsOf(n)) <= 1
           /\ Surviving \subseteq ForestIds

(***************************************************************************)
(* C17  Normal tree states never make an operation fail: for no record,    *)
(* one record and a chain of single children, construction followed by     *)
(* any sequence of toggleNode, expandAll, collapseAll, resetView and        *)
(* setSortOrder throws nothing; with no record the position map stays      *)
(* empty and the viewport keeps scale 1 and a finite translation.          *)
(***************************************************************************)
NormalStatesNeverFail ==
    /\ thrown = ""
    /\ ~OperationThrows(Chart)
    /\ data = <<>> => /\ nodePositions = <<>>
                      /\ currentScale = Num(1)
                      /\ IsFiniteNum(translationX)
                      /\ IsFiniteNum(translationY)

\* the chart without records after toggleNode, expandAll and setSortOrder
NormalStatesNeverFailWitness ==
    /\ data = <<>>
    /\ UnknownId \in DOMAIN expandedNodes
    /\ expandedNodes[UnknownId]
    /\ options.sortDirection = "desc"
    /\ centerTimer = 0

(***************************************************************************)
(* C18  Children are placed left to right in sibling order: in the final   *)
(* position map, for every two visible siblings a and b (children of one   *)
(* parent, or both roots) where a precedes b in the sorted list, x_a < x_b,*)
(* whatever mix of leaves, collapsed nodes and expanded subtrees they are. *)
(***************************************************************************)
\* the lists of siblings that are visible: the roots, and the children of
\* the visible expanded nodes
VisibleSiblingLists ==
    {hierarchicalData.roots} \cup {hierarchicalData.children[p] : p \in {n \in VisibleSet : ShownChildren(n) # {}}}

SiblingsLeftToRight ==
    \A list \in VisibleSiblingLists :
        \A i, j \in DOMAIN list :
            i < j => nodePositions[list[i]].x < nodePositions[list[j]].x

(***************************************************************************)
(* C19  Sibling sorting is a total order broken by id: for a fixed sort    *)
(* key and direction the order of the root list and of every children list *)
(* after building depends only on the set of records, not on the order of  *)
(* the records in the input; siblings with equal key values are ordered by *)
(* id.                                                                     *)
(***************************************************************************)
\* the orders the records of the input can be listed in
Orderings == {p \in [DOMAIN data -> DOMAIN data] : \A i, j \in DOMAIN data : p[i] = p[j] => i = j}

Reordered(p) == [i \in DOMAIN data |-> data[p[i]]]

\* the sibling lists of the tree built from the list d
BuiltLists(d) ==
    LET h == processData(d, options, idKind)
    IN  [roots |-> h.roots, children |-> h.children]

\* in the list, siblings of equal key stand in the order of their ids
TiesFollowIds(list) ==
    \A i, j \in DOMAIN list :
        (/\ i < j
         /\ SortKey(RecordOf(data, list[i]), options.sortBy, idKind)
                = SortKey(RecordOf(data, list[j]), options.sortBy, idKind))
            => IF options.sortDirection = "asc" THEN list[i] < list[j] ELSE list[i] > list[j]

SortingIsTotalOrder ==
    /\ \A p \in Orderings : BuiltLists(Reordered(p)) = BuiltLists(data)
    /\ TiesFollowIds(BuiltLists(data).roots)
    /\ \A n \in DOMAIN BuiltLists(data).children : TiesFollowIds(BuiltLists(data).children[n])

(***************************************************************************)
(* C20  collapseAll() collapses every node except those configured as      *)
(* initially visible: after collapseAll() in any reachable state the       *)
(* visible set is the visible set the chart had right after construction   *)
(* with the same data and options, so that collapseAll() shows no node     *)
(* that was hidden right after construction.                               *)
(***************************************************************************)
\* the visible set right after new SimpleOrgChart with the data and options
InitiallyVisible ==
    LET h == processData(data, options, idKind)
    IN  VisibleIn(h, configureInitialExpansion(h, options, <<>>))

CollapseAllRestoresInitialView ==
    [][CollapseAll => VisibleSet' = InitiallyVisible]_vars

(***************************************************************************)
(* C21  expandAll() makes the whole forest visible: after expandAll() in   *)
(* any reachable state every node of the built tree has expanded = true    *)
(* and an entry in nodePositions whose level is its depth below its root.  *)
(***************************************************************************)
\* the depth of the tree node n below its root
RECURSIVE DepthBelowRoot(_, _)
DepthBelowRoot(h, n) ==
    IF n \in Range(h.roots) THEN 0
    ELSE LET p == CHOOSE m \in DOMAIN h.children : n \in Range(h.children[m])
         IN  1 + DepthBelowRoot(h, p)

ExpandAllShowsForest ==
    LET c == expandAll(Chart, containerSize)
    IN  \A n \in TreeIds(c.hierarchicalData, c.hierarchicalData.roots) :
            /\ n \in DOMAIN c.expandedNodes
            /\ c.expandedNodes[n]
            /\ n \in DOMAIN c.nodePositions
            /\ c.nodePositions[n].level = DepthBelowRoot(c.hierarchicalData, n)

\* expandAll has acted on a forest of three levels: every node is expanded
\* and shown, a node of depth 2 among them, and collapseAll would hide it
ExpandAllShowsForestWitness ==
    /\ \A n \in NodeIds : expandedNodes[n] /\ n \in DOMAIN nodePositions
    /\ \E n \in NodeIds : DepthBelowRoot(hierarchicalData, n) = 2
    /\ Chart = expandAll(Chart, containerSize)
    /\ collapseAll(Chart, containerSize).nodePositions # nodePositions

(***************************************************************************)
(* C22  setSortOrder(field, direction) changes only sibling order: the     *)
(* expansion map (keys and values), the parent of every node and the       *)
(* visible set are the same before and after the call; the lists of        *)
(* siblings keep their members and the positions keep their nodes and      *)
(* levels.                                                                 *)
(***************************************************************************)
\* the parents of n in the tree h
ParentsIn(h, n) == {m \in DOMAIN h.children : n \in Range(h.children[m])}

\* the chart c differs from the current one in the order of siblings only
SameUpToSiblingOrder(c) ==
    /\ c.expandedNodes = expandedNodes
    /\ DOMAIN c.hierarchicalData.children = NodeIds
    /\ \A n \in NodeIds :
          /\ ParentsIn(c.hierarchicalData, n) = ParentsIn(hierarchicalData, n)
          /\ Len(c.hierarchicalData.children[n]) = Len(hierarchicalData.children[n])
    /\ Range(c.hierarchicalData.roots) = Range(hierarchicalData.roots)
    /\ Len(c.hierarchicalData.roots) = Len(hierarchicalData.roots)
    /\ VisibleIn(c.hierarchicalData, c.expandedNodes) = VisibleSet
    /\ DOMAIN c.nodePositions = DOMAIN nodePositions
    /\ \A n \in DOMAIN nodePositions : c.nodePositions[n].level = nodePositions[n].level

parentMap(h) ==
    [n \in {m \in TreeIds(h, h.roots) : \E q \in TreeIds(h, h.roots) : m \in Range(h.children[q])}
        |-> CHOOSE q \in TreeIds(h, h.roots) : n \in Range(h.children[q])]

\* the nodes of nodesAtLevel, level by level
RECURSIVE Flatten(_)
Flatten(nal) == IF nal = <<>> THEN <<>> ELSE Head(nal) \o Flatten(Tail(nal))

\* groupedNodes: the nodes of nodesAtLevel under their expanded parent
groupedNodes(c) ==
    LET pm == parentMap(c.hierarchicalData)
        shown == Flatten(c.nodesAtLevel)
        grouped(n) == /\ n \in DOMAIN pm
                      /\ pm[n] \in DOMAIN c.expandedNodes
                      /\ c.expandedNodes[pm[n]]
    IN  [p \in {pm[n] : n \in {m \in Range(shown) : grouped(m)}} |->
            {n \in Range(shown) : grouped(n) /\ pm[n] = p}]

\* this.findNodeById(Number(parentId)): Number of a non-numeric string is
\* NaN, which no id equals
findNodeByNumber(h, kind, parentId) ==
    IF kind = "number" THEN findNodeById(h, parentId) ELSE <<>>

\* the elements drawn for the parent parentId
ConnectionsOf(c, kind, parentId, children) ==
    LET childrenInfo == children \cap DOMAIN c.nodePositions
        xs == {c.nodePositions[n].x : n \in childrenInfo}
    IN  IF \/ parentId \notin DOMAIN c.nodePositions
           \/ findNodeByNumber(c.hierarchicalData, kind, parentId) = <<>>
           \/ childrenInfo = {}
        THEN {}
        ELSE {[shape |-> "parentVerticalLine", parent |-> parentId, node |-> parentId,
               x1 |-> c.nodePositions[parentId].x, x2 |-> c.nodePositions[parentId].x]}
             \cup (IF Cardinality(childrenInfo) > 1
                   THEN {[shape |-> "horizontalLine", parent |-> parentId, node |-> parentId,
                          x1 |-> SetMin(xs), x2 |-> SetMax(xs)]}
                   ELSE {})
             \cup {[shape |-> "path", parent |-> parentId, node |-> n,
                    x1 |-> c.nodePositions[n].x, x2 |-> c.nodePositions[n].x] :
                      n \in childrenInfo}

renderConnections(c, kind) ==
    LET g == groupedNodes(c)
    IN  UNION {ConnectionsOf(c, kind, p, g[p]) : p \in DOMAIN g}

(***************************************************************************)
(* C23  Connector geometry: for every visible expanded node with k >= 1    *)
(* visible children renderConnections emits exactly one vertical drop at   *)
(* the parent's x, exactly k vertical drops, one at each child's x, and a  *)
(* horizontal bar if and only if k >= 2, from the minimum to the maximum   *)
(* child x; nodes without visible children emit no connector and roots     *)
(* receive none.  This holds for integer and for string identifiers.       *)
(***************************************************************************)
ConnectorGeometry ==
    LET drawn == renderConnections(Chart, idKind)
        of(n, shape) == {e \in drawn : e.parent = n /\ e.shape = shape}
    IN  /\ \A n \in VisibleSet :
              LET kids == ShownChildren(n)
                  xs == {nodePositions[k].x : k \in kids}
              IN  IF kids = {}
                  THEN \A e \in drawn : e.parent # n
                  ELSE /\ \E e \in drawn :
                             /\ of(n, "parentVerticalLine") = {e}
                             /\ e.x1 = nodePositions[n].x
                       /\ {e.node : e \in of(n, "path")} = kids
                       /\ Cardinality(of(n, "path")) = Cardinality(kids)
                       /\ \A e \in of(n, "path") : e.x1 = nodePositions[e.node].x
                       /\ (of(n, "horizontalLine") # {}) <=> (Cardinality(kids) >= 2)
                       /\ \A e \in of(n, "horizontalLine") :
                             e.x1 = SetMin(xs) /\ e.x2 = SetMax(xs)
                       /\ Cardinality(of(n, "horizontalLine")) <= 1
        /\ \A e \in drawn : e.parent \in VisibleSet
        /\ \A e \in drawn :
              e.shape = "path" => e.node \notin Range(hierarchicalData.roots)

\* the same statement for the charts whose ids are numbers
ConnectorGeometryOfNumbers == idKind = "number" => ConnectorGeometry

(***************************************************************************)
(* C24  The drawing surface contains the whole layout: after               *)
(* calculateDimensions and adjustSVGSize every visible node has            *)
(* 0 <= x - nodeWidth/2 and x + nodeWidth/2 <= svgWidth, and               *)
(* (level + 1) * (nodeHeight + verticalSpacing) <= svgHeight.              *)
(***************************************************************************)
SurfaceContainsLayout ==
    \A n \in DOMAIN nodePositions :
        /\ 0 <= nodePositions[n].x - Half(Px(nodeWidth))
        /\ nodePositions[n].x + Half(Px(nodeWidth)) <= svgWidth
        /\ (nodePositions[n].level + 1) * (Px(nodeHeight) + Px(verticalSpacing)) <= svgHeight

\* the part of the statement about the left edge and the height
SurfaceContainsLeftEdgeAndHeight ==
    \A n \in DOMAIN nodePositions :
        /\ 0 <= nodePositions[n].x - Half(Px(nodeWidth))
        /\ (nodePositions[n].level + 1) * (Px(nodeHeight) + Px(verticalSpacing)) <= svgHeight

(***************************************************************************)
(* Dragging SimpleOrgChart: the listeners of configureDrag (1601-1661).    *)
(* A pointer event carries <<clientX, clientY>>; the page delivers         *)
(* mousedown and touchstart while no pointer is down, touch events while a *)
(* finger is down, and mouse moves at any time.  There is no listener for  *)
(* touchcancel.                                                            *)
(***************************************************************************)
PointerPositions == {<<100, 100>>, <<700, 500>>}
Buttons == {0, 2}

\* a value of the zoom slider (1478-1484: from 0.5 to 3 in steps of 0.1)
SliderLevels == {Num(2)}

\* the fields of the drag that no listener of a step writes
DragFrame ==
    UNCHANGED <<data, idKind, containerSize, htmlVars, pageState, options,
                hierarchicalData, expandedNodes, nodePositions, nodesAtLevel,
                svgWidth, svgHeight, centerTimer, lastX, lastY>>

\* isDragging = true; startX = clientX - translationX; startY likewise
StartDrag(p) ==
    /\ isDragging' = TRUE
    /\ dragStartX' = RSub(Num(p[1]), translationX)
    /\ dragStartY' = RSub(Num(p[2]), translationY)

\* translationX = clientX - startX; translationY = clientY - startY
DragTo(p) ==
    SetView([scale |-> currentScale,
             tx |-> RSub(Num(p[1]), dragStartX),
             ty |-> RSub(Num(p[2]), dragStartY)])

\* mousedown on the svg (1607-1614)
MouseDown(button, p) ==
    /\ pointer = "none"
    /\ events < MaxEvents
    /\ events' = events + 1
    /\ pointerAt' = p
    /\ IF button = 0
       THEN StartDrag(p) /\ pointer' = "mouse"
       ELSE UNCHANGED <<isDragging, dragStartX, dragStartY, pointer>>
    /\ UNCHANGED <<currentScale, translationX, translationY>>
    /\ DragFrame

\* mousemove on the window (1616-1623)
MouseMove(p) ==
    /\ pointer \in {"none", "mouse"}
    /\ pointerAt' = p
    /\ IF isDragging
       THEN DragTo(p)
       ELSE UNCHANGED <<currentScale, translationX, translationY>>
    /\ UNCHANGED <<isDragging, dragStartX, dragStartY, pointer, events>>
    /\ DragFrame

\* mouseup on the window (1625-1628)
MouseUp ==
    /\ pointer = "mouse"
    /\ pointer' = "none"
    /\ isDragging' = FALSE
    /\ UNCHANGED <<currentScale, translationX, translationY,
                   dragStartX, dragStartY, pointerAt, events>>
    /\ DragFrame

\* touchstart on the svg with one finger (1631-1639)
TouchStart(p) ==
    /\ pointer = "none"
    /\ events < MaxEvents
    /\ events' = events + 1
    /\ pointerAt' = p
    /\ pointer' = "touch"
    /\ StartDrag(p)
    /\ UNCHANGED <<currentScale, translationX, translationY>>
    /\ DragFrame

\* touchmove on the window with one finger (1641-1648)
TouchMove(p) ==
    /\ pointer = "touch"
    /\ pointerAt' = p
    /\ IF isDragging
       THEN DragTo(p)
       ELSE UNCHANGED <<currentScale, translationX, translationY>>
    /\ UNCHANGED <<isDragging, dragStartX, dragStartY, pointer, events>>
    /\ DragFrame

\* touchend on the window (1650-1653)
TouchEnd ==
    /\ pointer = "touch"
    /\ pointer' = "none"
    /\ isDragging' = FALSE
    /\ UNCHANGED <<currentScale, translationX, translationY,
                   dragStartX, dragStartY, pointerAt, events>>
    /\ DragFrame

\* touchcancel: the finger is gone and no listener runs
TouchCancel ==
    /\ pointer = "touch"
    /\ pointer' = "none"
    /\ UNCHANGED <<currentScale, translationX, translationY, isDragging,
                   dragStartX, dragStartY, pointerAt, events>>
    /\ DragFrame

\* a zoom event: the view changes, the drag is left as it is
ZoomEvent(view) ==
    /\ events < MaxEvents
    /\ events' = events + 1
    /\ SetView(view)
    /\ UNCHANGED <<isDragging, dragStartX, dragStartY, pointer, pointerAt>>
    /\ DragFrame

\* wheel on the svg (1656-1660): adjustZoom(0.1) or adjustZoom(-0.1)
Wheel(delta) == ZoomEvent(adjustZoom(containerSize, CurrentView, delta))

\* input on the zoom slider (1484): setZoom(value)
SliderInput(z) == ZoomEvent(setZoom(containerSize, CurrentView, z))

NextDrag ==
    \/ \E b \in Buttons, p \in PointerPositions : MouseDown(b, p)
    \/ \E p \in PointerPositions : MouseMove(p)
    \/ MouseUp
    \/ \E p \in PointerPositions : TouchStart(p)
    \/ \E p \in PointerPositions : TouchMove(p)
    \/ TouchEnd
    \/ TouchCancel
    \/ \E delta \in ZoomDeltas : Wheel(delta)
    \/ \E z \in SliderLevels : SliderInput(z)

SpecDrag == InitView /\ [][NextDrag]_vars

(***************************************************************************)
(* C25  Drag life cycle: a drag starts on a pointer-down event and ends on *)
(* every pointer up or cancel event (mouseup, touchend, touchcancel);      *)
(* pointer-move events received while no drag is in progress leave         *)
(* translateX, translateY and scale unchanged, in every event ordering.    *)
(***************************************************************************)
PointerDown ==
    \/ \E p \in PointerPositions : MouseDown(0, p)
    \/ \E p \in PointerPositions : TouchStart(p)

PointerUpOrCancel == MouseUp \/ TouchEnd \/ TouchCancel

PointerMove == \E p \in PointerPositions : MouseMove(p) \/ TouchMove(p)

DragLifeCycle ==
    [][/\ PointerDown => isDragging'
       /\ PointerUpOrCancel => ~isDragging'
       /\ (PointerMove /\ pointer = "none")
              => UNCHANGED <<currentScale, translationX, translationY>>]_vars

(***************************************************************************)
(* C26  Zoom is independent of the drag state in SimpleOrgChart: when a    *)
(* wheel zoom or setZoom happens while a drag is in progress the drag      *)
(* continues, and the next pointer-move sets the translation to the        *)
(* translation the zoom produced plus the displacement of the pointer      *)
(* since the zoom: the adjustment made by the zoom is not discarded.       *)
(***************************************************************************)
ZoomDuringDrag ==
    \/ \E delta \in ZoomDeltas : Wheel(delta)
    \/ \E z \in SliderLevels : SliderInput(z)

\* a move of the pointer that is down adds its displacement to the
\* translation it finds
MoveAddsDisplacement ==
    /\ translationX' = RAdd(translationX, Num(pointerAt'[1] - pointerAt[1]))
    /\ translationY' = RAdd(translationY, Num(pointerAt'[2] - pointerAt[2]))

ZoomIndependentOfDrag ==
    [][/\ (ZoomDuringDrag /\ isDragging) => isDragging'
       /\ (PointerMove /\ isDragging /\ pointer # "none") => MoveAddsDisplacement]_vars

\* the same statement for the drags no zoom has happened in
DragWithoutZoomAddsDisplacement ==
    [][(PointerMove /\ isDragging /\ pointer # "none"
            /\ translationX = RSub(Num(pointerAt[1]), dragStartX)
            /\ translationY = RSub(Num(pointerAt[2]), dragStartY))
         => MoveAddsDisplacement]_vars

(***************************************************************************)
(* Dragging HTMLOrgChart: the listeners of setupZoomControls               *)
(* (HTMLOrgChart.js 3181-3310).  The pointer is on the background of the   *)
(* chart, not on a button.                                                 *)
(***************************************************************************)
\* what the listeners of the drag leave alone
HtmlDragFrame ==
    UNCHANGED <<svgVars, containerSize, pageState, dragStartX, dragStartY,
                scale, boundaries, singleNode, initialCenter, wheelZoomTimeout,
                redrawTimers, gestures>>

\* Math.min(maxX, Math.max(minX, newTranslateX)) of moveDrag (3218-3227)
ClampX(b, x) ==
    IF b = <<>> THEN x
    ELSE MathMin(RSub(b.containerWidth, Num(100)),
                 MathMax(RAdd(RNeg(b.orgWidth), Num(100)), x))

ClampY(b, y) ==
    IF b = <<>> THEN y
    ELSE MathMin(RSub(b.containerHeight, Num(100)),
                 MathMax(RAdd(RNeg(b.orgHeight), Num(100)), y))

\* the new translation is stored and applied to the style
TranslateTo(x, y) ==
    /\ translateX' = x
    /\ translateY' = y
    /\ transform' = [tx |-> x, ty |-> y, scale |-> scale]

\* startDrag (3181-3200) on mousedown
HtmlStartDrag(button, p) ==
    /\ pointer = "none"
    /\ events + gestures < MaxEvents
    /\ events' = events + 1
    /\ pointerAt' = p
    /\ IF button = 2
       THEN UNCHANGED <<isDragging, lastX, lastY, pointer>>
       ELSE /\ isDragging' = TRUE
            /\ lastX' = p[1]
            /\ lastY' = p[2]
            /\ pointer' = "mouse"
    /\ UNCHANGED <<translateX, translateY, transform>>
    /\ HtmlDragFrame

\* moveDrag (3203-3239) on mousemove
HtmlMoveDrag(p) ==
    /\ pointer \in {"none", "mouse"}
    /\ pointerAt' = p
    /\ IF ~isDragging
       THEN UNCHANGED <<translateX, translateY, transform, lastX, lastY>>
       ELSE /\ TranslateTo(ClampX(boundaries, RAdd(translateX, Num(p[1] - lastX))),
                           ClampY(boundaries, RAdd(translateY, Num(p[2] - lastY))))
            /\ lastX' = p[1]
            /\ lastY' = p[2]
    /\ UNCHANGED <<isDragging, pointer, events>>
    /\ HtmlDragFrame

\* endDrag (3242-3248) on mouseup
HtmlEndDrag ==
    /\ pointer = "mouse"
    /\ pointer' = "none"
    /\ isDragging' = FALSE
    /\ UNCHANGED <<translateX, translateY, transform, lastX, lastY, pointerAt, events>>
    /\ HtmlDragFrame

\* startTouchDrag (3259-3274) on touchstart with one finger
HtmlStartTouchDrag(p) ==
    /\ pointer = "none"
    /\ events + gestures < MaxEvents
    /\ events' = events + 1
    /\ pointerAt' = p
    /\ isDragging' = TRUE
    /\ lastX' = p[1]
    /\ lastY' = p[2]
    /\ pointer' = "touch"
    /\ UNCHANGED <<translateX, translateY, transform>>
    /\ HtmlDragFrame

\* moveTouchDrag (3277-3296) on touchmove with one finger
HtmlMoveTouchDrag(p) ==
    /\ pointer = "touch"
    /\ pointerAt' = p
    /\ IF ~isDragging
       THEN UNCHANGED <<translateX, translateY, transform, lastX, lastY>>
       ELSE /\ TranslateTo(RAdd(translateX, Num(p[1] - lastX)),
                           RAdd(translateY, Num(p[2] - lastY)))
            /\ lastX' = p[1]
            /\ lastY' = p[2]
    /\ UNCHANGED <<isDragging, pointer, events>>
    /\ HtmlDragFrame

\* endTouchDrag (3299-3304) on touchend and on touchcancel
HtmlEndTouchDrag ==
    /\ pointer = "touch"
    /\ pointer' = "none"
    /\ isDragging' = FALSE
    /\ UNCHANGED <<translateX, translateY, transform, lastX, lastY, pointerAt, events>>
    /\ HtmlDragFrame

HtmlDragNext ==
    \/ \E b \in Buttons, p \in PointerPositions : HtmlStartDrag(b, p)
    \/ \E p \in PointerPositions : HtmlMoveDrag(p)
    \/ HtmlEndDrag
    \/ \E p \in PointerPositions : HtmlStartTouchDrag(p)
    \/ \E p \in PointerPositions : HtmlMoveTouchDrag(p)
    \/ HtmlEndTouchDrag

\* the zooms and timeouts of the chart, the gestures of the user bounded
\* together
NextHtmlDrag ==
    \/ InitialCenterTimeout
    \/ WheelZoomTimeout
    \/ RedrawTimeout
    \/ HtmlResetView
    \/ /\ events + gestures < MaxEvents
       /\ \/ \E f \in FocalPoints, deltaY \in WheelDeltaYs : HandleWheel(f, deltaY)
          \/ \E delta \in ZoomDeltas : HtmlAdjustZoom(delta)
    \/ HtmlDragNext

SpecHtmlDrag == InitHtml /\ [][NextHtmlDrag]_vars

(***************************************************************************)
(* C27  Boundary clamp: once HTMLOrgChart has recorded its boundaries, no  *)
(* sequence of mouse drags, touch drags and wheel or button zooms loses    *)
(* the content: translateX stays within [-orgWidth + 100,                  *)
(* containerWidth - 100] and translateY within [-orgHeight + 100,          *)
(* containerHeight - 100], orgWidth and orgHeight being the size of the    *)
(* rendered content at the current scale.                                  *)
(***************************************************************************)
ContentWithinBoundaries ==
    boundaries # <<>> =>
        /\ RLeq(RAdd(RNeg(RMul(Num(orgSize[1]), scale)), Num(100)), translateX)
        /\ RLeq(translateX, Num(containerSize[1] - 100))
        /\ RLeq(RAdd(RNeg(RMul(Num(orgSize[2]), scale)), Num(100)), translateY)
        /\ RLeq(translateY, Num(containerSize[2] - 100))

(***************************************************************************)
(* C28  Deferred re-measurement is debounced: at every moment at most one  *)
(* deferred connector-redraw callback is pending per chart, and a new      *)
(* mutation (wheel zoom, adjustZoom, render) that arrives while one is     *)
(* pending cancels the older callback, which never runs after the newer    *)
(* mutation.                                                               *)
(***************************************************************************)
\* the number of pending callbacks that call redrawAllConnectors
PendingRedraws == redrawTimers + (IF wheelZoomTimeout THEN 1 ELSE 0)

Mutation ==
    \/ \E f \in FocalPoints, deltaY \in WheelDeltaYs : HandleWheel(f, deltaY)
    \/ \E delta \in ZoomDeltas : HtmlAdjustZoom(delta)
    \/ HtmlResetView

RedrawIsDebounced ==
    [][/\ PendingRedraws' <= 1
       /\ Mutation => PendingRedraws' = 1]_vars

\* the same statement for the wheel alone, which clears its own timeout
WheelRedrawIsDebounced ==
    [][(\E f \in FocalPoints, deltaY \in WheelDeltaYs : HandleWheel(f, deltaY))
          => (wheelZoomTimeout' /\ redrawTimers' = redrawTimers)]_vars

(***************************************************************************)
(* The class of OrganigramaSimple.js.  Its layout (calculateDimensions     *)
(* 208-369, adjustSVGSize 371-405, assignXPositions 1232-1317) and its     *)
(* drag listeners (configureDrag 692-755) are, statement by statement,     *)
(* those of SimpleOrgChart.js; processData does not sort, toggleNode keeps *)
(* the zoom and the place of the toggled node, and setZoom changes the     *)
(* scale only.                                                             *)
(***************************************************************************)
\* processData (86-141): the tree in the order of the input
organigramaProcessData(d, kind) ==
    LET uniqueData == UniqueData(d, {})
        ids == {uniqueData[i].id : i \in DOMAIN uniqueData}
        h0 == [roots |-> <<>>, children |-> [n \in ids |-> <<>>], level |-> [n \in ids |-> 0]]
        h1 == BuildHierarchy(uniqueData, 1, h0, kind)
        f == filterDuplicates(h1.roots, {}, h1.children)
    IN  [roots |-> f.unique, children |-> f.kids, level |-> h1.level]

\* centerChart (560-593) and centerOnSVG (598-609)
organigramaCenterChart(h, lay, cs, view) ==
    LET quarter == RSub(RDiv(Num(cs[2]), Num(4)), Num(50))
        onSVG == RDiv(RSub(Num(cs[1]), RMul(PxNum(lay.svgWidth), view.scale)), Two)
        tx == IF Len(h.roots) = 1 /\ h.roots[1] \in DOMAIN lay.pos
              THEN RSub(RDiv(Num(cs[1]), Two), PxNum(lay.pos[h.roots[1]].x))
              ELSE onSVG
    IN  [scale |-> view.scale, tx |-> tx,
         ty |-> IF RLess(quarter, Num(0)) THEN Num(20) ELSE quarter]

\* render (518-555): currentScale = 1, then centerChart
organigramaRender(h, lay, cs) ==
    organigramaCenterChart(h, lay, cs, [scale |-> Num(1), tx |-> Num(0), ty |-> Num(0)])

\* a faulty toggleNode that keeps the translation it found
organigramaToggleViewUncompensated(view, oldPos, newPos, nodeId) == view

\* toggleNode (456-484): the view saved before the change is restored, its
\* translationX compensated by the displacement of the node
organigramaToggleView(view, oldPos, newPos, nodeId) ==
    IF nodeId \in DOMAIN oldPos /\ nodeId \in DOMAIN newPos
    THEN LET deltaX == PxNum(newPos[nodeId].x - oldPos[nodeId].x)
         IN  [view EXCEPT !.tx = RSub(view.tx, RMul(deltaX, view.scale))]
    ELSE view

\* toggleNode (411-485)
organigramaToggleNode(c, nodeId) ==
    LET exp == ToggleExpansion(c.hierarchicalData, c.expandedNodes, nodeId)
        lay == calculateDimensions(c.hierarchicalData, exp, EmptyLayout)
    IN  ChartOf(c.options, c.hierarchicalData, exp, lay,
                organigramaToggleView(ViewOf(c), c.nodePositions, lay.pos, nodeId))

OrganigramaToggleNode(nodeId) ==
    /\ SetChart(organigramaToggleNode(Chart, nodeId))
    /\ UNCHANGED <<dataVars, centerTimer>>

\* adjustZoom (765-768) and setZoom (774-779)
organigramaAdjustZoom(view, delta) ==
    [view EXCEPT !.scale = MathMax(Rat(1, 2), MathMin(Num(3), RAdd(view.scale, delta)))]

\* wheel on the svg (750-754)
OrganigramaWheel(delta) == ZoomEvent(organigramaAdjustZoom(CurrentView, delta))

\* initialize (72-81)
organigramaInitialize(d, kind, opts, cs) ==
    LET h == organigramaProcessData(d, kind)
        exp == configureInitialExpansion(h, opts, <<>>)
        lay == calculateDimensions(h, exp, EmptyLayout)
    IN  ChartOf(opts, h, exp, lay, organigramaRender(h, lay, cs))

\* the chart holds the fields of c
ChartIs(c) ==
    /\ options = c.options
    /\ hierarchicalData = c.hierarchicalData
    /\ expandedNodes = c.expandedNodes
    /\ nodePositions = c.nodePositions
    /\ nodesAtLevel = c.nodesAtLevel
    /\ svgWidth = c.svgWidth
    /\ svgHeight = c.svgHeight
    /\ currentScale = c.currentScale
    /\ translationX = c.translationX
    /\ translationY = c.translationY

OrganigramaDataSets == UNION {DataSetsOfSize(n, {"ann"}) : n \in 0..MaxSortNodes}

InitOrganigrama ==
    \E d \in OrganigramaDataSets, cs \in ContainerSizes :
        /\ data = d
        /\ idKind = "number"
        /\ containerSize = cs
        /\ ChartIs(organigramaInitialize(d, "number", defaultOptions, cs))
        /\ centerTimer = 0
        /\ NoHtmlChart
        /\ thrown = ""
        /\ mounted = {"SimpleOrgChart"}
        /\ NoDrag

NextOrganigrama ==
    \/ \E n \in NodeIds : OrganigramaToggleNode(n)
    \/ \E delta \in ZoomDeltas : OrganigramaWheel(delta)
    \/ \E b \in Buttons, p \in PointerPositions : MouseDown(b, p)
    \/ \E p \in PointerPositions : MouseMove(p)
    \/ MouseUp

SpecOrganigrama == InitOrganigrama /\ [][NextOrganigrama]_vars

(***************************************************************************)
(* C29  Toggle keeps the clicked node in place (OrganigramaSimple.js): for *)
(* any pan and zoom state and any visible node n, toggleNode(n) leaves     *)
(* currentScale and translationY unchanged and sets translationX so that   *)
(* the screen x of n, translationX + x_n * currentScale, is the same after *)
(* the call as before it.                                                  *)
(***************************************************************************)
\* the screen x of the node n in the chart c
ScreenX(c, n) == RAdd(c.translationX, RMul(PxNum(c.nodePositions[n].x), c.currentScale))

ToggleKeepsNodeInPlace ==
    \A n \in DOMAIN nodePositions :
        LET c == organigramaToggleNode(Chart, n)
        IN  /\ c.currentScale = currentScale
            /\ c.translationY = translationY
            /\ n \in DOMAIN c.nodePositions
            /\ ScreenX(c, n) = ScreenX(Chart, n)

\* a zoomed and dragged chart in which a toggle has expanded a node, and a
\* visible node that its own toggle moves in the layout
ToggleKeepsNodeInPlaceWitness ==
    /\ currentScale # Num(1)
    /\ translationX # organigramaRender(hierarchicalData, CurrentLayout, containerSize).tx
    /\ \E n \in NodeIds : expandedNodes[n]
    /\ \E n \in DOMAIN nodePositions :
          LET c == organigramaToggleNode(Chart, n)
          IN  /\ c.nodePositions[n].x # nodePositions[n].x
              /\ c.translationX # translationX
              /\ ScreenX(c, n) = ScreenX(Chart, n)

(***************************************************************************)
(* C30  User gestures are not overwritten by deferred callbacks in         *)
(* HTMLOrgChart: once a user zoom has changed the scale and translation    *)
(* after construction, the callback of the initial centering, scheduled by *)
(* the constructor before the gesture, does not change scale, translateX   *)
(* or translateY.                                                          *)
(***************************************************************************)
\* the first timeout of initialize is the one the constructor scheduled
ScheduledByConstructor == initialCenter = 2

GesturesSurviveCallbacks ==
    [][(InitialCenterTimeout /\ ScheduledByConstructor /\ gestures > 0)
          => UNCHANGED <<scale, translateX, translateY>>]_vars

\* the same statement for the debounced redraw of a chart that shows more
\* than one node
RedrawKeepsViewOfManyNodes ==
    [][((WheelZoomTimeout \/ RedrawTimeout) /\ ~singleNode)
          => UNCHANGED <<scale, translateX, translateY>>]_vars

=============================================================================
